---- MODULE Spec2Model ----
(***************************************************************************)
(* Highlight detection core of youtube-live-transcript-archiver:           *)
(*   src/src/analyze.py  detect_mad_peaks, calculate_highlight_scores,     *)
(*                       get_dynamic_segments, merge_segments,             *)
(*                       process_chat_signals                              *)
(*   src/main.py         robust_merge_ranges                               *)
(*                                                                         *)
(* The functions are pure computations over lists and tables; each is an   *)
(* operator, and the state machine is a caller that picks one entry point  *)
(* (op), draws its arguments from bounded sets in Init and runs it.        *)
(* A range is a pair <<start, end>> of seconds.                            *)
(*                                                                         *)
(* Numbers.  Python floats are modelled by exact rationals kept as scaled  *)
(* integers: a score series is a sequence of integer numerators over one   *)
(* common denominator, a median is kept doubled (Median2), multipliers and *)
(* weights are kept in tenths (15 for 1.5, 7 for 0.7).                     *)
(***************************************************************************)
EXTENDS Integers, Sequences, FiniteSets

VARIABLES
    op,                 \* entry point the caller exercises
    pc,                 \* position of the caller / of process_chat_signals
    segments,           \* merge_segments: the caller's list (sorted in place)
    gap_threshold,      \* merge_segments: gap_threshold
    merged,             \* merge_segments: returned list
    times,              \* robust_merge_ranges: peak seconds
    pad_pre,            \* robust_merge_ranges: pad_pre
    pad_post,           \* robust_merge_ranges: pad_post
    final_ranges,       \* robust_merge_ranges: returned list
    counts,             \* detect_mad_peaks: the series
    threshold_multiplier, \* detect_mad_peaks, process_chat_signals: in tenths
    peaks,              \* detect_mad_peaks: returned peak indices (0-based)
    chat_df,            \* process_chat_signals, get_dynamic_segments: chat table
    metrics,            \* process_chat_signals: per-minute table
    highlight_minutes,  \* peak minutes (peaks of get_dynamic_segments)
    baseline_median,    \* get_dynamic_segments: baseline_median, doubled
    params,             \* get_dynamic_segments: keyword parameters
    raw_segments,       \* get_dynamic_segments: returned segments
    final_segments,     \* process_chat_signals: returned ranges
    transcript_df,      \* get_transcript_segment: the transcript table
    start_time,         \* get_transcript_segment: start_time, <<>> for None
    end_time,           \* get_transcript_segment: end_time, <<>> for None
    transcript_segment, \* get_transcript_segment: returned table
    url,                \* run_clip_generator: url, <<>> for None
    dry_run,            \* run_clip_generator: dry_run
    analysis_impl,      \* what main.process_chat_signals is bound to
    spike_seconds,      \* run_clip_generator: result of the analysis
    raw_files,          \* run_clip_generator: downloaded raw clips
    existing,           \* raw clips present on disk
    processed_files,    \* run_clip_generator: normalized clips
    clip,               \* run_clip_generator: index i of the processing loop
    calls,              \* collaborator calls made so far, with their outcome
    logged,             \* Logger.error / Logger.warning messages so far
    commands_run,       \* reporter.analysis_log["commands_run"]
    highlights,         \* reporter.analysis_log["highlights"]
    report_format,      \* generate_reports: REPORT_FORMAT split at ","
    format_index,       \* generate_reports: formats handled so far
    generated_files,    \* generate_reports: generated_files
    chat_lines          \* chat parsers: the lines of the .live_chat.json file

transcriptVars == <<transcript_df, start_time, end_time, transcript_segment>>
runVars == <<url, dry_run, analysis_impl, spike_seconds, raw_files, existing,
             processed_files, clip, calls, logged, commands_run, highlights>>

\* The state of the entry points outside the highlight detection core.
reportVars == <<report_format, format_index, generated_files>>
auxVars == <<transcriptVars, runVars, reportVars, chat_lines>>

vars == <<op, pc, segments, gap_threshold, merged, times, pad_pre, pad_post,
          final_ranges, counts, threshold_multiplier, peaks, chat_df, metrics,
          highlight_minutes, baseline_median, params, raw_segments,
          final_segments, auxVars>>

-----------------------------------------------------------------------------
(* Bounds of the model *)

MaxT == 4           \* merge_segments: range endpoints are drawn from 0..MaxT
MaxSegs == 3        \* merge_segments: at most MaxSegs ranges in the list
MaxGap == 1         \* merge_segments: gap_threshold is drawn from 0..MaxGap
MaxTimes == 3       \* robust_merge_ranges: at most MaxTimes peak seconds
MaxSeriesLen == 10  \* detect_mad_peaks: at most MaxSeriesLen samples
MaxSpikes == 2      \* detect_mad_peaks: at most MaxSpikes samples off the base value
MaxMinute == 3      \* chat tables: events fall in the minutes 0..MaxMinute
MaxEvents == 5      \* chat tables: at most MaxEvents events
MaxPeaks == 2       \* get_dynamic_segments: at most MaxPeaks peak minutes

(* Program constants *)

MERGE_THRESHOLD == 30
DEFAULT_GAP_THRESHOLD == 10     \* merge_segments(segments, gap_threshold=10)
ACTIVITY_WEIGHT == 7            \* activity_weight = 0.7, in tenths
SENTIMENT_WEIGHT == 3           \* sentiment_weight = 0.3, in tenths

-----------------------------------------------------------------------------
(* Generic helpers *)

Max(a, b) == IF a >= b THEN a ELSE b
Min(a, b) == IF a <= b THEN a ELSE b

\* All sequences over S of length at most n.
SeqsUpTo(S, n) == UNION {[1..k -> S] : k \in 0..n}

-----------------------------------------------------------------------------
(* merge_segments, src/src/analyze.py:111-129 *)

\* list.sort(key=lambda x: x[0]) is stable: x goes after every element whose
\* start is <= its own.  s is already sorted by start.
InsertByStart(x, s) ==
    LET k == Cardinality({i \in 1..Len(s) : s[i][1] <= x[1]})
    IN SubSeq(s, 1, k) \o <<x>> \o SubSeq(s, k + 1, Len(s))

RECURSIVE SortByStart(_)
SortByStart(s) ==
    IF s = <<>> THEN <<>>
    ELSE InsertByStart(s[Len(s)], SortByStart(SubSeq(s, 1, Len(s) - 1)))

\* The for loop of lines 121-126 followed by the final append of line 128.
RECURSIVE MergeSweep(_, _, _, _, _)
MergeSweep(rest, current_start, current_end, gap, acc) ==
    IF rest = <<>> THEN Append(acc, <<current_start, current_end>>)
    ELSE LET next_start == Head(rest)[1]
             next_end == Head(rest)[2]
         IN IF next_start <= current_end + gap
            THEN MergeSweep(Tail(rest), current_start, Max(current_end, next_end),
                            gap, acc)
            ELSE MergeSweep(Tail(rest), next_start, next_end, gap,
                            Append(acc, <<current_start, current_end>>))

\* Mutant: the merge test is "<" instead of "<=" (line 122).
RECURSIVE MergeSweepStrict(_, _, _, _, _)
MergeSweepStrict(rest, current_start, current_end, gap, acc) ==
    IF rest = <<>> THEN Append(acc, <<current_start, current_end>>)
    ELSE LET next_start == Head(rest)[1]
             next_end == Head(rest)[2]
         IN IF next_start < current_end + gap
            THEN MergeSweepStrict(Tail(rest), current_start,
                                  Max(current_end, next_end), gap, acc)
            ELSE MergeSweepStrict(Tail(rest), next_start, next_end, gap,
                                  Append(acc, <<current_start, current_end>>))

merge_segments_strict(segs, gap) ==
    IF segs = <<>> THEN <<>>
    ELSE LET s == SortByStart(segs)
         IN MergeSweepStrict(Tail(s), s[1][1], s[1][2], gap, <<>>)

\* Mutant: the final append of line 128 is missing, the last group is lost.
merge_segments_no_flush(segs, gap) ==
    IF segs = <<>> THEN <<>>
    ELSE LET s == SortByStart(segs)
             all == MergeSweep(Tail(s), s[1][1], s[1][2], gap, <<>>)
         IN SubSeq(all, 1, Len(all) - 1)

\* Mutant: line 123 assigns next_end instead of max(current_end, next_end).
RECURSIVE MergeSweepNoMax(_, _, _, _, _)
MergeSweepNoMax(rest, current_start, current_end, gap, acc) ==
    IF rest = <<>> THEN Append(acc, <<current_start, current_end>>)
    ELSE LET next_start == Head(rest)[1]
             next_end == Head(rest)[2]
         IN IF next_start <= current_end + gap
            THEN MergeSweepNoMax(Tail(rest), current_start, next_end, gap, acc)
            ELSE MergeSweepNoMax(Tail(rest), next_start, next_end, gap,
                                 Append(acc, <<current_start, current_end>>))

merge_segments_no_max(segs, gap) ==
    IF segs = <<>> THEN <<>>
    ELSE LET s == SortByStart(segs)
         IN MergeSweepNoMax(Tail(s), s[1][1], s[1][2], gap, <<>>)

merge_segments(segs, gap) ==
    IF segs = <<>> THEN <<>>
    ELSE LET s == SortByStart(segs)
         IN MergeSweep(Tail(s), s[1][1], s[1][2], gap, <<>>)

-----------------------------------------------------------------------------
(* robust_merge_ranges, src/main.py:38-57 *)

\* Tuple order of sorted(): by start, then by end.
TupleLeq(a, b) == a[1] < b[1] \/ (a[1] = b[1] /\ a[2] <= b[2])

InsertTuple(x, s) ==
    LET k == Cardinality({i \in 1..Len(s) : TupleLeq(s[i], x)})
    IN SubSeq(s, 1, k) \o <<x>> \o SubSeq(s, k + 1, Len(s))

RECURSIVE SortTuples(_)
SortTuples(s) ==
    IF s = <<>> THEN <<>>
    ELSE InsertTuple(s[Len(s)], SortTuples(SubSeq(s, 1, Len(s) - 1)))

\* [(t - pad_pre, t + pad_post) for t in times]
PaddedRanges(ts, pre, post) == [i \in 1..Len(ts) |-> <<ts[i] - pre, ts[i] + post>>]

\* The for loop of lines 48-54 followed by the final append of line 56.
RECURSIVE RobustSweep(_, _, _, _)
RobustSweep(rest, curr_start, curr_end, acc) ==
    IF rest = <<>> THEN Append(acc, <<Max(0, curr_start), curr_end>>)
    ELSE LET start == Head(rest)[1]
             end == Head(rest)[2]
         IN IF start <= curr_end + MERGE_THRESHOLD
            THEN RobustSweep(Tail(rest), curr_start, Max(curr_end, end), acc)
            ELSE RobustSweep(Tail(rest), start, end,
                             Append(acc, <<Max(0, curr_start), curr_end>>))

\* Mutant: the emitted start is not clamped with max(0, .) (lines 53, 56).
RECURSIVE RobustSweepNoClamp(_, _, _, _)
RobustSweepNoClamp(rest, curr_start, curr_end, acc) ==
    IF rest = <<>> THEN Append(acc, <<curr_start, curr_end>>)
    ELSE LET start == Head(rest)[1]
             end == Head(rest)[2]
         IN IF start <= curr_end + MERGE_THRESHOLD
            THEN RobustSweepNoClamp(Tail(rest), curr_start, Max(curr_end, end), acc)
            ELSE RobustSweepNoClamp(Tail(rest), start, end,
                                    Append(acc, <<curr_start, curr_end>>))

robust_merge_ranges_no_clamp(ts, pre, post) ==
    IF ts = <<>> THEN <<>>
    ELSE LET ranges == SortTuples(PaddedRanges(ts, pre, post))
         IN RobustSweepNoClamp(Tail(ranges), ranges[1][1], ranges[1][2], <<>>)

\* Mutant: the padded ranges are not sorted (line 43 without sorted()).
robust_merge_ranges_unsorted(ts, pre, post) ==
    IF ts = <<>> THEN <<>>
    ELSE LET ranges == PaddedRanges(ts, pre, post)
         IN RobustSweep(Tail(ranges), ranges[1][1], ranges[1][2], <<>>)

robust_merge_ranges(ts, pre, post) ==
    IF ts = <<>> THEN <<>>
    ELSE LET ranges == SortTuples(PaddedRanges(ts, pre, post))
         IN RobustSweep(Tail(ranges), ranges[1][1], ranges[1][2], <<>>)

-----------------------------------------------------------------------------
(* detect_mad_peaks, src/src/analyze.py:9-22 *)

Abs(x) == IF x >= 0 THEN x ELSE -x

InsertInt(x, s) ==
    LET k == Cardinality({i \in 1..Len(s) : s[i] <= x})
    IN SubSeq(s, 1, k) \o <<x>> \o SubSeq(s, k + 1, Len(s))

RECURSIVE SortInts(_)
SortInts(s) ==
    IF s = <<>> THEN <<>>
    ELSE InsertInt(s[Len(s)], SortInts(SubSeq(s, 1, Len(s) - 1)))

\* Twice the median of a non-empty series (np.median, Series.median): the
\* middle sample, or the mean of the two middle samples.
Median2(xs) ==
    LET s == SortInts(xs)
        n == Len(s)
    IN IF n % 2 = 1 THEN 2 * s[(n + 1) \div 2]
       ELSE s[n \div 2] + s[n \div 2 + 1]

\* The elements of a finite set of integers in ascending order.
RECURSIVE AscendingSeq(_)
AscendingSeq(S) ==
    IF S = {} THEN <<>>
    ELSE LET m == CHOOSE x \in S : \A y \in S : x <= y
         IN <<m>> \o AscendingSeq(S \ {m})

\* The local maxima scipy.signal.find_peaks starts from, as 0-based indices:
\* a plateau l..r of equal samples with a strictly lower sample on each side
\* (so never the first or the last sample), reported at (l + r) // 2.
LocalMaxima(x) ==
    {((l - 1) + (r - 1)) \div 2 : <<l, r>> \in
        {lr \in (2..(Len(x) - 1)) \X (2..(Len(x) - 1)) :
            /\ lr[1] <= lr[2]
            /\ x[lr[1] - 1] < x[lr[1]]
            /\ \A k \in lr[1]..lr[2] : x[k] = x[lr[1]]
            /\ x[lr[2] + 1] < x[lr[2]]}}

\* Four times the MAD, in units of 1/den: median_abs_deviation(counts) is the
\* median of |x - median(x)|; a MAD of 0 is replaced by 1 (lines 17-18).
Mad4(x, den) ==
    LET m2 == Median2(x)
        dev2 == [i \in 1..Len(x) |-> Abs(2 * x[i] - m2)]
        mad4 == Median2(dev2)
    IN IF mad4 = 0 THEN 4 * den ELSE mad4

\* Mutant: a MAD of 0 is kept (lines 17-18 missing).
Mad4NoSubstitute(x, den) ==
    LET m2 == Median2(x)
        dev2 == [i \in 1..Len(x) |-> Abs(2 * x[i] - m2)]
    IN Median2(dev2)

\* threshold = baseline + mad * threshold_multiplier, in units of 1/(40 den):
\* baseline = Median2/(2 den), mad = Mad4/(4 den), multiplier = mult10/10.
Threshold40(x, den, mult10) == 20 * Median2(x) + Mad4(x, den) * mult10

detect_mad_peaks_keep_zero_mad(x, den, mult10) ==
    IF x = <<>> THEN <<>>
    ELSE AscendingSeq({i \in LocalMaxima(x) :
            40 * x[i + 1] >= 20 * Median2(x) + Mad4NoSubstitute(x, den) * mult10})

\* Mutant: a first or last sample above its only neighbour counts as a local
\* maximum too.
detect_mad_peaks_with_edges(x, den, mult10) ==
    IF x = <<>> THEN <<>>
    ELSE LET n == Len(x)
             first == IF n = 1 \/ x[1] > x[2] THEN {0} ELSE {}
             last == IF n > 1 /\ x[n] > x[n - 1] THEN {n - 1} ELSE {}
         IN AscendingSeq({i \in LocalMaxima(x) \cup first \cup last :
                40 * x[i + 1] >= Threshold40(x, den, mult10)})

\* The peaks of detect_mad_peaks(counts, threshold_multiplier), 0-based and
\* ascending: the local maxima whose height is >= threshold
\* (find_peaks(counts, height=threshold)).  The series is x[i]/den, the
\* multiplier mult10/10.  An empty series has no local maximum (its median
\* and threshold are nan, which find_peaks never compares with anything).
detect_mad_peaks(x, den, mult10) ==
    IF x = <<>> THEN <<>>
    ELSE AscendingSeq({i \in LocalMaxima(x) :
            40 * x[i + 1] >= Threshold40(x, den, mult10)})

-----------------------------------------------------------------------------
(* calculate_highlight_scores, src/src/analyze.py:25-43 *)

RECURSIVE Product(_)
Product(xs) == IF xs = <<>> THEN 1 ELSE Head(xs) * Product(Tail(xs))

SeqMin(xs) == CHOOSE v \in {xs[i] : i \in 1..Len(xs)} : \A i \in 1..Len(xs) : v <= xs[i]
SeqMax(xs) == CHOOSE v \in {xs[i] : i \in 1..Len(xs)} : \A i \in 1..Len(xs) : v >= xs[i]

\* normalize(series) = (series - min) / (max - min), or series * 0 when
\* max = min: numerator series and its denominator.
NormalizeNum(xs) == [i \in 1..Len(xs) |-> xs[i] - SeqMin(xs)]
NormalizeDen(xs) == IF SeqMax(xs) = SeqMin(xs) THEN 1 ELSE SeqMax(xs) - SeqMin(xs)

\* avg_sentiment of the rows over one common denominator P (the product of
\* the message counts): sentiment_sum / message_count = AvgNum / P.
AvgNum(rows) ==
    LET P == Product([i \in 1..Len(rows) |-> rows[i].message_count])
    IN [i \in 1..Len(rows) |-> rows[i].sentiment_sum * (P \div rows[i].message_count)]

\* Mutant: the message counts enter the score as they are, without
\* normalize (line 38).
calculate_highlight_scores_raw_counts(rows, activity_weight, sentiment_weight) ==
    LET avg == AvgNum(rows)
        Ds == NormalizeDen(avg)
        ns == NormalizeNum(avg)
    IN [i \in 1..Len(rows) |->
          [minute |-> rows[i].minute,
           message_count |-> rows[i].message_count,
           sentiment_sum |-> rows[i].sentiment_sum,
           score_num |-> activity_weight * rows[i].message_count * Ds
                         + sentiment_weight * ns[i],
           score_den |-> 10 * Ds]]

\* metrics with highlight_score = activity_weight * norm_count +
\* sentiment_weight * norm_sent added: score_num / score_den, one score_den for
\* all rows.  The weights are in tenths.
calculate_highlight_scores(rows, activity_weight, sentiment_weight) ==
    LET cnt == [i \in 1..Len(rows) |-> rows[i].message_count]
        avg == AvgNum(rows)
        Dc == NormalizeDen(cnt)
        Ds == NormalizeDen(avg)
        nc == NormalizeNum(cnt)
        ns == NormalizeNum(avg)
    IN [i \in 1..Len(rows) |->
          [minute |-> rows[i].minute,
           message_count |-> rows[i].message_count,
           sentiment_sum |-> rows[i].sentiment_sum,
           score_num |-> activity_weight * nc[i] * Ds + sentiment_weight * ns[i] * Dc,
           score_den |-> 10 * Dc * Ds]]

-----------------------------------------------------------------------------
(* get_dynamic_segments, src/src/analyze.py:46-108 *)

MinuteMin(df) == SeqMin([i \in 1..Len(df) |-> df[i].minute])
MinuteMax(df) == SeqMax([i \in 1..Len(df) |-> df[i].minute])

\* chat_df.groupby("minute").size().reindex(range(min_min, max_min + 1),
\* fill_value=0)
CountsSeries(df) ==
    [m \in MinuteMin(df)..MinuteMax(df) |->
        Cardinality({i \in 1..Len(df) : df[i].minute = m})]

\* counts_series.get(m, 0)
CountAt(cs, m) == IF m \in DOMAIN cs THEN cs[m] ELSE 0

\* counts_series.get(m, 0) < activity_threshold, where activity_threshold =
\* baseline_median * activity_multiplier = (baseline2 / 2) * (mult10 / 10).
BelowThreshold(cs, m, baseline2, mult10) == 20 * CountAt(cs, m) < baseline2 * mult10

\* Lines 76-80: for m in range(peak_min - 1, search_start - 1, -1).
RECURSIVE FindStart(_, _, _, _, _, _)
FindStart(cs, m, search_start, start_min, baseline2, mult10) ==
    IF m < search_start THEN start_min
    ELSE IF BelowThreshold(cs, m, baseline2, mult10) THEN m
    ELSE FindStart(cs, m - 1, search_start, m, baseline2, mult10)

\* Mutant: lines 94-95 are missing, an elevated minute does not reset
\* quiet_streak.
RECURSIVE FindEndNoReset(_, _, _, _, _, _, _, _)
FindEndNoReset(cs, m, search_end, quiet_streak, end_min, baseline2, mult10, confirm) ==
    IF m > search_end THEN end_min
    ELSE LET q == IF BelowThreshold(cs, m, baseline2, mult10)
                  THEN quiet_streak + 1 ELSE quiet_streak
         IN IF q >= confirm THEN m - q + 1
            ELSE FindEndNoReset(cs, m + 1, search_end, q, m, baseline2, mult10,
                                confirm)

\* Lines 91-100: for m in range(peak_min + 1, search_end + 1).
RECURSIVE FindEnd(_, _, _, _, _, _, _, _)
FindEnd(cs, m, search_end, quiet_streak, end_min, baseline2, mult10, confirm) ==
    IF m > search_end THEN end_min
    ELSE LET q == IF BelowThreshold(cs, m, baseline2, mult10)
                  THEN quiet_streak + 1 ELSE 0
         IN IF q >= confirm THEN m - q + 1
            ELSE FindEnd(cs, m + 1, search_end, q, m, baseline2, mult10, confirm)

\* Mutant: line 84 lacks the floor max(min_min * 60, .).
FinalStartSecNoFloor(peak_min, cs, min_min, baseline2, p) ==
    LET peak_sec == peak_min * 60
        search_start == Max(min_min, peak_min - p.buildup_window)
        start_min == FindStart(cs, peak_min - 1, search_start, peak_min,
                               baseline2, p.activity_multiplier)
        dynamic_start_sec == start_min * 60
        safe_start_sec == peak_sec - p.min_pre_padding
    IN Min(dynamic_start_sec, safe_start_sec)

\* Mutant: line 84 takes the later of the dynamic and the safe start.
FinalStartSecLater(peak_min, cs, min_min, baseline2, p) ==
    LET peak_sec == peak_min * 60
        search_start == Max(min_min, peak_min - p.buildup_window)
        start_min == FindStart(cs, peak_min - 1, search_start, peak_min,
                               baseline2, p.activity_multiplier)
        dynamic_start_sec == start_min * 60
        safe_start_sec == peak_sec - p.min_pre_padding
    IN Max(min_min * 60, Max(dynamic_start_sec, safe_start_sec))

\* Lines 72-84: the start of the segment of one peak minute.
FinalStartSec(peak_min, cs, min_min, baseline2, p) ==
    LET peak_sec == peak_min * 60
        search_start == Max(min_min, peak_min - p.buildup_window)
        start_min == FindStart(cs, peak_min - 1, search_start, peak_min,
                               baseline2, p.activity_multiplier)
        dynamic_start_sec == start_min * 60
        safe_start_sec == peak_sec - p.min_pre_padding
    IN Max(min_min * 60, Min(dynamic_start_sec, safe_start_sec))

\* Mutant: line 102 is end_min * 60, the end of the last minute is left out.
FinalEndSecNoPlusOne(peak_min, cs, max_min, baseline2, p) ==
    LET peak_sec == peak_min * 60
        search_end == Min(max_min, peak_min + p.winddown_window)
        end_min == FindEnd(cs, peak_min + 1, search_end, 0, peak_min, baseline2,
                           p.activity_multiplier, p.drop_off_confirm_mins)
        dynamic_end_sec == end_min * 60
        safe_end_sec == peak_sec + p.min_post_padding
    IN Max(dynamic_end_sec, safe_end_sec)

\* Lines 86-104: the end of the segment of one peak minute.
FinalEndSec(peak_min, cs, max_min, baseline2, p) ==
    LET peak_sec == peak_min * 60
        search_end == Min(max_min, peak_min + p.winddown_window)
        end_min == FindEnd(cs, peak_min + 1, search_end, 0, peak_min, baseline2,
                           p.activity_multiplier, p.drop_off_confirm_mins)
        dynamic_end_sec == (end_min + 1) * 60
        safe_end_sec == peak_sec + p.min_post_padding
    IN Max(dynamic_end_sec, safe_end_sec)

\* get_dynamic_segments(peaks, chat_df, baseline_median, **p) for a non-empty
\* chat_df: one segment per peak minute, in ascending peak order.  baseline2
\* is twice baseline_median; p holds the keyword parameters.
get_dynamic_segments(pks, df, baseline2, p) ==
    LET cs == CountsSeries(df)
        sorted == SortInts(pks)
    IN [i \in 1..Len(sorted) |->
          <<FinalStartSec(sorted[i], cs, MinuteMin(df), baseline2, p),
            FinalEndSec(sorted[i], cs, MinuteMax(df), baseline2, p)>>]

\* The defaults of lines 50-55 (activity_multiplier in tenths).
DefaultParams ==
    [buildup_window |-> 10, winddown_window |-> 15, min_pre_padding |-> 180,
     min_post_padding |-> 120, activity_multiplier |-> 15,
     drop_off_confirm_mins |-> 2]

-----------------------------------------------------------------------------
(* process_chat_signals, src/src/analyze.py:132-174 *)

\* analyzer.polarity_scores(msg)["compound"], a function of the text alone,
\* in hundredths.
Compound(msg) == IF msg = "nice" THEN 42 ELSE -46

\* Lines 146-148: chat_df["sentiment"] = chat_df["message"].map(scores).
WithSentiment(df) ==
    [i \in 1..Len(df) |->
        [offset_seconds |-> df[i].offset_seconds, message |-> df[i].message,
         minute |-> df[i].minute, sentiment |-> Compound(df[i].message)]]

RECURSIVE SumOver(_, _)
SumOver(df, I) ==
    IF I = {} THEN 0
    ELSE LET i == CHOOSE j \in I : TRUE
         IN df[i].sentiment + SumOver(df, I \ {i})

\* Lines 151-155: one row per minute that has messages, in ascending minute
\* order, with message_count and the sum behind avg_sentiment.
Aggregate(df) ==
    LET mins == AscendingSeq({df[i].minute : i \in 1..Len(df)})
    IN [k \in 1..Len(mins) |->
          LET I == {i \in 1..Len(df) : df[i].minute = mins[k]}
          IN [minute |-> mins[k], message_count |-> Cardinality(I),
              sentiment_sum |-> SumOver(df, I)]]

\* Line 162: metrics.loc[peaks, "minute"].tolist()
MinutesAt(rows, pks) == [i \in 1..Len(pks) |-> rows[pks[i] + 1].minute]

\* Line 168: metrics["message_count"].median(), doubled.
BaselineMedian2(rows) == Median2([i \in 1..Len(rows) |-> rows[i].message_count])

-----------------------------------------------------------------------------
(* Inputs *)

\* Ranges with start < end (the Range invariant of the data model).
RangeSet == {r \in (0..MaxT) \X (0..MaxT) : r[1] < r[2]}
SegLists == SeqsUpTo(RangeSet, MaxSegs)
GapValues == 0..MaxGap

\* Peak seconds: 100 and 140 overlap once padded, 140 and 350 are exactly
\* pad_pre + pad_post + MERGE_THRESHOLD = 210 apart for the paddings 120/60,
\* 360 is further.
PeakSeconds == {0, 100, 140, 340, 350, 360}
TimeLists == SeqsUpTo(PeakSeconds, MaxTimes)
PadPreValues == {0, 120}
PadPostValues == {50, 60}

\* Series for detect_mad_peaks: flat at 2 with at most MaxSpikes samples at 3
\* (exactly the threshold 2 + 1 * 1.0 of a flat series) or 50.
SeriesSet ==
    {x \in SeqsUpTo({2, 3, 50}, MaxSeriesLen) :
        Cardinality({i \in 1..Len(x) : x[i] # 2}) <= MaxSpikes}
\* threshold_multiplier 1.0, 1.5 and 100.0, in tenths.
MultiplierValues == {10, 15, 1000}

\* Chat events as the parsers deliver them: offset_seconds >= 0, minute =
\* floor(offset_seconds / 60), the table in ascending offset order.  Event
\* kind k is a message at second 60 * m (text "nice") or 60 * m + 15 (text
\* "awful") of minute m in 0..MaxMinute.
NKinds == 2 * (MaxMinute + 1)
EventOf(k) ==
    LET off == 60 * ((k - 1) \div 2) + 15 * ((k - 1) % 2)
    IN [offset_seconds |-> off,
        message |-> IF (k - 1) % 2 = 0 THEN "nice" ELSE "awful",
        minute |-> off \div 60]

\* The non-decreasing sequences of length n over the kinds in K that are >= lo.
RECURSIVE NonDecreasing(_, _, _)
NonDecreasing(n, lo, K) ==
    IF n = 0 THEN {<<>>}
    ELSE UNION {{<<k>> \o t : t \in NonDecreasing(n - 1, k, K)} :
                  k \in {j \in K : j >= lo}}

TablesOver(K) ==
    {[i \in 1..Len(ks) |-> EventOf(ks[i])] :
        ks \in UNION {NonDecreasing(n, 1, K) : n \in 0..MaxEvents}}

\* Chat tables for process_chat_signals, and the tables of one text for
\* get_dynamic_segments (which reads the minute column only).
ChatTables == TablesOver(1..NKinds)
CountTables == TablesOver({k \in 1..NKinds : k % 2 = 1}) \ {<<>>}

\* threshold_multiplier of process_chat_signals: the default 1.5, the 0.5
\* of src/modular_test.py and the 1.0 that detect_mad_peaks has as its own
\* default, in tenths.
PipelineMultipliers == {5, 10, 15}

\* Peak lists for get_dynamic_segments: ascending minutes of the table's span.
PeakLists(df) ==
    {AscendingSeq(S) : S \in {T \in SUBSET (MinuteMin(df)..MinuteMax(df)) :
                                 T # {} /\ Cardinality(T) <= MaxPeaks}}
\* Twice the baseline_median: 0.5, 1 and 2 messages per minute.
BaselineValues == {1, 2, 4}
\* Keyword parameters: the defaults, and short windows and paddings.
ShortParams ==
    [buildup_window |-> 2, winddown_window |-> 2, min_pre_padding |-> 60,
     min_post_padding |-> 60, activity_multiplier |-> 15,
     drop_off_confirm_mins |-> 2]
\* The same with a drop-off confirmed by a single quiet minute.
QuickParams ==
    [buildup_window |-> 2, winddown_window |-> 2, min_pre_padding |-> 60,
     min_post_padding |-> 60, activity_multiplier |-> 15,
     drop_off_confirm_mins |-> 1]
\* Short windows and no padding at all.
NoPaddingParams ==
    [buildup_window |-> 2, winddown_window |-> 2, min_pre_padding |-> 0,
     min_post_padding |-> 0, activity_multiplier |-> 15,
     drop_off_confirm_mins |-> 2]
ParamValues == {DefaultParams, ShortParams, QuickParams, NoPaddingParams}

-----------------------------------------------------------------------------
(* The caller *)

mergeVars == <<segments, gap_threshold, merged>>
robustVars == <<times, pad_pre, pad_post, final_ranges>>
madVars == <<counts, peaks>>
pipeVars == <<metrics, final_segments>>
dynVars == <<highlight_minutes, baseline_median, params, raw_segments>>

NoMergeArgs == segments = <<>> /\ gap_threshold = 0
NoRobustArgs == times = <<>> /\ pad_pre = 0 /\ pad_post = 0
NoMadArgs == counts = <<>>
NoDynArgs == highlight_minutes = <<>> /\ baseline_median = 0 /\ params = DefaultParams

\* The entry points outside the core are not exercised.
IdleTranscript ==
    /\ transcript_df = <<>> /\ start_time = <<>> /\ end_time = <<>>
    /\ transcript_segment = <<>>
IdleRun ==
    /\ url = <<>> /\ dry_run = FALSE /\ analysis_impl = "src.analyze"
    /\ spike_seconds = <<>> /\ raw_files = <<>> /\ existing = {}
    /\ processed_files = <<>> /\ clip = 0
    /\ calls = <<>> /\ logged = <<>> /\ commands_run = <<>>
    /\ highlights = <<>>
IdleReport ==
    report_format = <<>> /\ format_index = 0 /\ generated_files = <<>>
IdleParser == chat_lines = <<>>
IdleAux == IdleTranscript /\ IdleRun /\ IdleReport /\ IdleParser

InitMerge ==
    /\ op = "merge_segments"
    /\ segments \in SegLists
    /\ gap_threshold \in GapValues
    /\ NoRobustArgs /\ NoMadArgs /\ NoDynArgs
    /\ chat_df = <<>> /\ threshold_multiplier = 0

InitRobust ==
    /\ op = "robust_merge_ranges"
    /\ times \in TimeLists
    /\ pad_pre \in PadPreValues
    /\ pad_post \in PadPostValues
    /\ NoMergeArgs /\ NoMadArgs /\ NoDynArgs
    /\ chat_df = <<>> /\ threshold_multiplier = 0

InitMad ==
    /\ op = "detect_mad_peaks"
    /\ counts \in SeriesSet
    /\ threshold_multiplier \in MultiplierValues
    /\ NoMergeArgs /\ NoRobustArgs /\ NoDynArgs
    /\ chat_df = <<>>

\* The table may be empty and so may the peak list; on an empty table the
\* peak list is [] or [0].
InitDynamic ==
    /\ op = "get_dynamic_segments"
    /\ chat_df \in CountTables \cup {<<>>}
    /\ highlight_minutes \in
          IF chat_df = <<>> THEN {<<>>, <<0>>}
          ELSE PeakLists(chat_df) \cup {<<>>}
    /\ baseline_median \in BaselineValues
    /\ params \in ParamValues
    /\ NoMergeArgs /\ NoRobustArgs /\ NoMadArgs
    /\ threshold_multiplier = 0

InitPipeline ==
    /\ op = "process_chat_signals"
    /\ chat_df \in ChatTables
    /\ threshold_multiplier \in PipelineMultipliers
    /\ NoMergeArgs /\ NoRobustArgs /\ NoMadArgs /\ NoDynArgs

Init ==
    /\ pc = "call"
    /\ merged = <<>>
    /\ final_ranges = <<>>
    /\ peaks = <<>>
    /\ metrics = <<>>
    /\ raw_segments = <<>>
    /\ final_segments = <<>>
    /\ IdleAux
    /\ \/ InitMerge
       \/ InitRobust
       \/ InitMad
       \/ InitDynamic
       \/ InitPipeline

\* merged = merge_segments(segments, gap_threshold); line 117 sorts the
\* caller's list in place when it is not empty.
CallMergeSegments ==
    /\ op = "merge_segments" /\ pc = "call"
    /\ merged' = merge_segments(segments, gap_threshold)
    /\ segments' = SortByStart(segments)
    /\ pc' = "return"
    /\ UNCHANGED <<auxVars, op, gap_threshold, robustVars, madVars, pipeVars, dynVars,
                   chat_df, threshold_multiplier>>

\* final_ranges = robust_merge_ranges(times, pad_pre, pad_post); sorted()
\* builds a new list, times is not touched.
CallRobustMergeRanges ==
    /\ op = "robust_merge_ranges" /\ pc = "call"
    /\ final_ranges' = robust_merge_ranges(times, pad_pre, pad_post)
    /\ pc' = "return"
    /\ UNCHANGED <<auxVars, op, mergeVars, times, pad_pre, pad_post, madVars, pipeVars,
                   dynVars, chat_df, threshold_multiplier>>

\* peaks, _ = detect_mad_peaks(counts, threshold_multiplier) on an integer
\* series (denominator 1).
CallDetectMadPeaks ==
    /\ op = "detect_mad_peaks" /\ pc = "call"
    /\ peaks' = detect_mad_peaks(counts, 1, threshold_multiplier)
    /\ pc' = "return"
    /\ UNCHANGED <<auxVars, op, mergeVars, robustVars, counts, pipeVars, dynVars,
                   chat_df, threshold_multiplier>>

\* raw_segments = get_dynamic_segments(peaks, chat_df, baseline_median, **params)
\* On an empty table line 61 raises before the loop over the peaks:
\* chat_df["minute"] is a KeyError on a table without columns, and
\* int(chat_df["minute"].min()) is int(nan), a ValueError, on an empty table
\* that has the column.
CallGetDynamicSegments ==
    /\ op = "get_dynamic_segments" /\ pc = "call"
    /\ IF chat_df = <<>>
       THEN /\ pc' = "raise"
            /\ raw_segments' = raw_segments
       ELSE /\ raw_segments' = get_dynamic_segments(highlight_minutes, chat_df,
                                                    baseline_median, params)
            /\ pc' = "return"
    /\ UNCHANGED <<auxVars, op, mergeVars, robustVars, madVars, pipeVars,
                   highlight_minutes, baseline_median, params, chat_df,
                   threshold_multiplier>>

(* process_chat_signals(chat_df, threshold_multiplier=...), stage by stage *)

\* Mutant: the check of lines 141-142 is missing and an empty table falls
\* through to sentiment scoring.
PCS_EmptyFallsThrough ==
    /\ op = "process_chat_signals" /\ pc = "call"
    /\ chat_df = <<>>
    /\ chat_df' = WithSentiment(chat_df)
    /\ pc' = "sentiment_scored"
    /\ UNCHANGED <<auxVars, op, mergeVars, robustVars, madVars, pipeVars, dynVars,
                   threshold_multiplier>>

\* Lines 141-142: an empty table returns [] at once.
PCS_EmptyReturn ==
    /\ op = "process_chat_signals" /\ pc = "call"
    /\ chat_df = <<>>
    /\ final_segments' = <<>>
    /\ pc' = "return"
    /\ UNCHANGED <<auxVars, op, mergeVars, robustVars, madVars, metrics, dynVars,
                   chat_df, threshold_multiplier>>

\* Lines 144-148: sentiment scoring; the column is added to the caller's table.
PCS_Sentiment ==
    /\ op = "process_chat_signals" /\ pc = "call"
    /\ chat_df # <<>>
    /\ chat_df' = WithSentiment(chat_df)
    /\ pc' = "sentiment_scored"
    /\ UNCHANGED <<auxVars, op, mergeVars, robustVars, madVars, pipeVars, dynVars,
                   threshold_multiplier>>

\* Lines 150-155: aggregate by minute.
PCS_Aggregate ==
    /\ op = "process_chat_signals" /\ pc = "sentiment_scored"
    /\ metrics' = Aggregate(chat_df)
    /\ pc' = "aggregated"
    /\ UNCHANGED <<auxVars, op, mergeVars, robustVars, madVars, final_segments, dynVars,
                   chat_df, threshold_multiplier>>

\* Lines 157-158: highlight scores.
PCS_Score ==
    /\ op = "process_chat_signals" /\ pc = "aggregated"
    /\ metrics' = calculate_highlight_scores(metrics, ACTIVITY_WEIGHT,
                                             SENTIMENT_WEIGHT)
    /\ pc' = "highlight_scored"
    /\ UNCHANGED <<auxVars, op, mergeVars, robustVars, madVars, final_segments, dynVars,
                   chat_df, threshold_multiplier>>

\* Lines 160-162: peak detection on the highlight_score column and the
\* minutes of the peak rows.
PCS_Detect ==
    /\ op = "process_chat_signals" /\ pc = "highlight_scored"
    /\ LET pks == detect_mad_peaks([i \in 1..Len(metrics) |-> metrics[i].score_num],
                                   metrics[1].score_den, threshold_multiplier)
       IN /\ peaks' = pks
          /\ highlight_minutes' = MinutesAt(metrics, pks)
    /\ pc' = "peaks_detected"
    /\ UNCHANGED <<auxVars, op, mergeVars, robustVars, counts, pipeVars, baseline_median,
                   params, raw_segments, chat_df, threshold_multiplier>>

\* Mutant: the check of lines 164-165 is missing and an empty peak list goes
\* on to get_dynamic_segments.
PCS_NoPeaksFallsThrough ==
    /\ op = "process_chat_signals" /\ pc = "peaks_detected"
    /\ highlight_minutes = <<>>
    /\ baseline_median' = BaselineMedian2(metrics)
    /\ raw_segments' = get_dynamic_segments(highlight_minutes, chat_df,
                                            BaselineMedian2(metrics), DefaultParams)
    /\ pc' = "expanded"
    /\ UNCHANGED <<auxVars, op, mergeVars, robustVars, madVars, pipeVars,
                   highlight_minutes, params, chat_df, threshold_multiplier>>

\* Lines 164-165: no peak returns [].
PCS_NoPeaksReturn ==
    /\ op = "process_chat_signals" /\ pc = "peaks_detected"
    /\ highlight_minutes = <<>>
    /\ final_segments' = <<>>
    /\ pc' = "return"
    /\ UNCHANGED <<auxVars, op, mergeVars, robustVars, madVars, metrics, dynVars,
                   chat_df, threshold_multiplier>>

\* Lines 167-169: dynamic padding with the default keyword parameters.
PCS_Expand ==
    /\ op = "process_chat_signals" /\ pc = "peaks_detected"
    /\ highlight_minutes # <<>>
    /\ baseline_median' = BaselineMedian2(metrics)
    /\ raw_segments' = get_dynamic_segments(highlight_minutes, chat_df,
                                            BaselineMedian2(metrics), DefaultParams)
    /\ pc' = "expanded"
    /\ UNCHANGED <<auxVars, op, mergeVars, robustVars, madVars, pipeVars,
                   highlight_minutes, params, chat_df, threshold_multiplier>>

\* Lines 171-174: merge with the default gap_threshold; merge_segments sorts
\* raw_segments in place.
PCS_Merge ==
    /\ op = "process_chat_signals" /\ pc = "expanded"
    /\ final_segments' = merge_segments(raw_segments, DEFAULT_GAP_THRESHOLD)
    /\ raw_segments' = SortByStart(raw_segments)
    /\ pc' = "return"
    /\ UNCHANGED <<auxVars, op, mergeVars, robustVars, madVars, metrics,
                   highlight_minutes, baseline_median, params, chat_df,
                   threshold_multiplier>>

Next ==
    \/ CallMergeSegments
    \/ CallRobustMergeRanges
    \/ CallDetectMadPeaks
    \/ CallGetDynamicSegments
    \/ PCS_EmptyReturn
    \/ PCS_Sentiment
    \/ PCS_Aggregate
    \/ PCS_Score
    \/ PCS_Detect
    \/ PCS_NoPeaksReturn
    \/ PCS_Expand
    \/ PCS_Merge

Spec == Init /\ [][Next]_vars

-----------------------------------------------------------------------------
(* get_transcript_segment, src/src/parsers.py:520-565 *)

\* A transcript row is [offset_start_seconds, offset_end_seconds]; an
\* Optional[float] argument is <<>> for None and <<v>> for the value v.

\* Mutant: the third alternative of the overlap condition (the segment
\* contains the range) is missing.
get_transcript_segment_no_contain(df, st, en) ==
    LET Both(s) ==
            \/ /\ s.offset_start_seconds >= st[1]
               /\ s.offset_start_seconds <= en[1]
            \/ /\ s.offset_end_seconds >= st[1]
               /\ s.offset_end_seconds <= en[1]
        FromStart(s) == s.offset_end_seconds >= st[1]
        ToEnd(s) == s.offset_start_seconds <= en[1]
    IN IF df = <<>> THEN <<>>
       ELSE IF st = <<>> /\ en = <<>> THEN df
       ELSE IF st # <<>> /\ en # <<>> THEN SelectSeq(df, Both)
       ELSE IF st # <<>> THEN SelectSeq(df, FromStart)
       ELSE SelectSeq(df, ToEnd)

\* Lines 535-565.  A boolean mask keeps the rows in table order.
get_transcript_segment(df, st, en) ==
    LET overlap_condition(s) ==
            \/ /\ s.offset_start_seconds >= st[1]
               /\ s.offset_start_seconds <= en[1]
            \/ /\ s.offset_end_seconds >= st[1]
               /\ s.offset_end_seconds <= en[1]
            \/ /\ s.offset_start_seconds <= st[1]
               /\ s.offset_end_seconds >= en[1]
        FromStart(s) == s.offset_end_seconds >= st[1]
        ToEnd(s) == s.offset_start_seconds <= en[1]
    IN IF df = <<>> THEN <<>>
       ELSE IF st = <<>> /\ en = <<>> THEN df
       ELSE IF st # <<>> /\ en # <<>> THEN SelectSeq(df, overlap_condition)
       ELSE IF st # <<>> THEN SelectSeq(df, FromStart)
       ELSE SelectSeq(df, ToEnd)

\* Inputs: seconds around the range (60, 120) of Scenario 5; rows with
\* start <= end, in any order; each bound None or one of the seconds.
MaxRows == 2        \* transcripts: at most MaxRows rows
TranscriptSeconds == {58, 60, 62, 120, 130}
TranscriptRows ==
    {[offset_start_seconds |-> r[1], offset_end_seconds |-> r[2]] :
        r \in {q \in TranscriptSeconds \X TranscriptSeconds : q[1] <= q[2]}}
Transcripts == SeqsUpTo(TranscriptRows, MaxRows)
OptionalSeconds == {<<>>} \cup {<<t>> : t \in TranscriptSeconds}

\* Everything of the core is at rest while another entry point runs.
IdleCore ==
    /\ NoMergeArgs /\ NoRobustArgs /\ NoMadArgs /\ NoDynArgs
    /\ merged = <<>> /\ final_ranges = <<>> /\ peaks = <<>> /\ metrics = <<>>
    /\ raw_segments = <<>> /\ final_segments = <<>>
    /\ chat_df = <<>> /\ threshold_multiplier = 0

coreVars == <<mergeVars, robustVars, madVars, pipeVars, dynVars, chat_df,
              threshold_multiplier>>

InitTranscript ==
    /\ op = "get_transcript_segment" /\ pc = "call"
    /\ transcript_df \in Transcripts
    /\ start_time \in OptionalSeconds
    /\ end_time \in OptionalSeconds
    /\ transcript_segment = <<>>
    /\ IdleCore /\ IdleRun /\ IdleReport /\ IdleParser

\* transcript_segment = get_transcript_segment(transcript_df, start_time,
\* end_time); the result is a copy, the table is not touched.
CallGetTranscriptSegment ==
    /\ op = "get_transcript_segment" /\ pc = "call"
    /\ transcript_segment' = get_transcript_segment(transcript_df, start_time,
                                                    end_time)
    /\ pc' = "return"
    /\ UNCHANGED <<op, coreVars, runVars, reportVars, chat_lines,
                   transcript_df, start_time, end_time>>

NextTranscript == CallGetTranscriptSegment

SpecTranscript == InitTranscript /\ [][NextTranscript]_vars

-----------------------------------------------------------------------------
(* run_clip_generator, src/main.py:60-442 *)

\* The run is modelled with start_time = end_time = None (no time slicing)
\* and the configuration defaults of src/config.py.  The collaborators that
\* reach outside the process (yt-dlp, ffmpeg, the file system) answer
\* nondeterministically.  A call is recorded as [fn, outcome].

PADDING_PRE_SEC == 120
PADDING_POST_SEC == 60

\* str.strip() on the strings drawn: the blank url and the format " txt"
\* lose characters.
Strip(text) ==
    IF text = "   " THEN "" ELSE IF text = " txt" THEN "txt" ELSE text

\* Line 78: not url or not url.strip()
Blank(u) == u = <<>> \/ u[1] = "" \/ Strip(u[1]) = ""

Call(fn, outcome) == [fn |-> fn, outcome |-> outcome]

\* One entry of reporter.log_command(command, purpose, success); the purpose
\* is kept as its kind and the clip number it is formatted with.
Command(purpose, n, success) ==
    [purpose |-> purpose, clip |-> n, success |-> success]

\* Inputs.
MaxRunSpikes == 3   \* run_clip_generator: at most MaxRunSpikes spike seconds
UrlValues ==
    {<<>>, <<"">>, <<"   ">>, <<"not-a-url">>, <<"ftp://invalid.com">>,
     <<"https://www.youtube.com/watch?v=test123">>}
\* main.process_chat_signals is the function of src/src/analyze.py, or the
\* stand-in a test puts in its place (src/tests_integration.py:78).
AnalysisImpls == {"src.analyze", "patched"}
\* What the stand-in returns: 120 and 130 merge into one range, 600 is apart.
SpikeLists == SeqsUpTo({120, 130, 600}, MaxRunSpikes)
\* What parse_chat_log returns: an empty table or one message.
RunChatTables == {<<>>, <<EventOf(1)>>}

InitRun ==
    /\ op = "run_clip_generator" /\ pc = "call"
    /\ url \in UrlValues
    /\ dry_run \in BOOLEAN
    /\ analysis_impl \in AnalysisImpls
    /\ spike_seconds = <<>> /\ raw_files = <<>> /\ existing = {}
    /\ processed_files = <<>> /\ clip = 0
    /\ calls = <<>> /\ logged = <<>> /\ commands_run = <<>>
    /\ highlights = <<>>
    /\ IdleCore /\ IdleTranscript /\ IdleReport /\ IdleParser

runLocals == <<spike_seconds, raw_files, existing, processed_files, clip,
               commands_run, highlights>>
runArgs == <<op, url, dry_run, analysis_impl>>
notRun == <<mergeVars, times, pad_pre, pad_post, madVars, pipeVars, dynVars,
            threshold_multiplier, transcriptVars, reportVars, chat_lines>>

\* Lines 71-101: the url check, get_config and the reporter.  The ValueError
\* of line 79 is caught at line 440, which ends the process (sys.exit(1)).
RCG_Validate ==
    /\ op = "run_clip_generator" /\ pc = "call"
    /\ IF Blank(url)
       THEN /\ logged' = Append(logged, "Unexpected pipeline failure")
            /\ pc' = "SystemExit"
       ELSE /\ pc' = "phase1"
            /\ UNCHANGED logged
    /\ UNCHANGED <<runArgs, notRun, runLocals, chat_df, final_ranges, calls>>

\* Lines 103-171, Phase 1.  parse_transcript_vtt catches its own exceptions
\* (src/src/parsers.py:260-262) and is not recorded.
RCG_Phase1 ==
    /\ op = "run_clip_generator" /\ pc = "phase1"
    /\ \E paths \in {"raises", "no chat", "paths"}, parse_raises \in BOOLEAN,
          parsed \in RunChatTables :
          LET ingest == Call("download_chat_and_transcript", paths)
          IN IF paths = "raises"
             THEN /\ calls' = Append(calls, ingest)
                  /\ logged' = Append(logged,
                        "Failed during metadata and chat analysis phase")
                  /\ pc' = "return"
                  /\ UNCHANGED chat_df
             ELSE IF paths = "no chat"
             THEN /\ calls' = Append(calls, ingest)
                  /\ logged' = Append(logged,
                        "No chat data available for analysis")
                  /\ pc' = "return"
                  /\ UNCHANGED chat_df
             ELSE IF parse_raises
             THEN /\ calls' = calls \o
                        <<ingest, Call("parse_chat_log", "raises")>>
                  /\ logged' = Append(logged,
                        "Failed during metadata and chat analysis phase")
                  /\ pc' = "return"
                  /\ UNCHANGED chat_df
             ELSE /\ calls' = calls \o
                        <<ingest, Call("parse_chat_log", "returns")>>
                  /\ chat_df' = parsed
                  /\ logged' = IF parsed = <<>>
                               THEN Append(logged,
                                   "Chat parsing resulted in empty dataset")
                               ELSE logged
                  /\ pc' = "phase2"
    /\ UNCHANGED <<runArgs, notRun, runLocals, final_ranges>>

\* The keyword parameters of process_chat_signals (src/src/analyze.py:133-136)
\* and the keyword the call of line 185-187 passes.
AnalysisKeywords == {"activity_weight", "sentiment_weight", "threshold_multiplier"}
CallKeywords == {"window_min"}

\* The call of lines 185-187 raises: the real function rejects a keyword it
\* does not have (TypeError), a stand-in raises when it is told to.
AnalysisRaises(stand_in_raises) ==
    IF analysis_impl = "src.analyze"
    THEN ~(CallKeywords \subseteq AnalysisKeywords)
    ELSE stand_in_raises

\* AnalysisReporter.log_highlights(highlight_ranges, spike_seconds),
\* src/src/utils.py:138-159, called at line 193 of src/main.py: the entry of
\* highlight i (0-based) takes spike_seconds[i] as its original_spike_time,
\* or None when the spike list is shorter.
log_highlights(highlight_ranges, spikes) ==
    [i \in 1..Len(highlight_ranges) |->
        [id |-> i,
         start_seconds |-> highlight_ranges[i][1],
         end_seconds |-> highlight_ranges[i][2],
         original_spike_time |-> IF i <= Len(spikes) THEN <<spikes[i]>> ELSE <<>>]]

\* Mutant: the handler of lines 214-216 lets the exception go on to the
\* handler of line 440.
RCG_Phase2Reraise ==
    /\ op = "run_clip_generator" /\ pc = "phase2"
    /\ \E stand_in_raises \in BOOLEAN, spikes \in SpikeLists :
          IF AnalysisRaises(stand_in_raises)
          THEN /\ calls' = Append(calls, Call("process_chat_signals", "raises"))
               /\ logged' = Append(logged, "Unexpected pipeline failure")
               /\ pc' = "SystemExit"
               /\ UNCHANGED <<spike_seconds, final_ranges, highlights>>
          ELSE /\ calls' = Append(calls, Call("process_chat_signals", "returns"))
               /\ spike_seconds' = spikes
               /\ final_ranges' = robust_merge_ranges(spikes, PADDING_PRE_SEC,
                                                      PADDING_POST_SEC)
               /\ highlights' =
                     log_highlights(robust_merge_ranges(spikes, PADDING_PRE_SEC,
                                                        PADDING_POST_SEC), spikes)
               /\ pc' = "download"
               /\ UNCHANGED logged
    /\ UNCHANGED <<runArgs, notRun, raw_files, existing, processed_files, clip,
                   commands_run, chat_df>>

\* Lines 174-216, Phase 2.
RCG_Phase2 ==
    /\ op = "run_clip_generator" /\ pc = "phase2"
    /\ \E stand_in_raises \in BOOLEAN, spikes \in SpikeLists :
          IF AnalysisRaises(stand_in_raises)
          THEN /\ calls' = Append(calls, Call("process_chat_signals", "raises"))
               /\ logged' = Append(logged, "Failed during signal analysis phase")
               /\ pc' = "return"
               /\ UNCHANGED <<spike_seconds, final_ranges, highlights>>
          ELSE /\ calls' = Append(calls, Call("process_chat_signals", "returns"))
               /\ spike_seconds' = spikes
               /\ final_ranges' = robust_merge_ranges(spikes, PADDING_PRE_SEC,
                                                      PADDING_POST_SEC)
               /\ highlights' =
                     log_highlights(robust_merge_ranges(spikes, PADDING_PRE_SEC,
                                                        PADDING_POST_SEC), spikes)
               /\ pc' = "download"
               /\ UNCHANGED logged
    /\ UNCHANGED <<runArgs, notRun, raw_files, existing, processed_files, clip,
                   commands_run, chat_df>>

\* download_specific_clips, src/src/ingest.py:56-93: one file per clip whose
\* download worked, in clip order; a file is named by the number of its clip.
\* S is the set of clips whose download worked.
download_specific_clips(clips, S) == AscendingSeq(S \cap (1..Len(clips)))

\* Mutant: line 233 does not look at cfg.DRY_RUN.
RCG_DownloadAlways ==
    /\ op = "run_clip_generator" /\ pc = "download"
    /\ \E S \in SUBSET (1..Len(final_ranges)) :
          LET files == download_specific_clips(final_ranges, S)
          IN /\ calls' = Append(calls, Call("download_specific_clips", "returns"))
             /\ raw_files' = files
             /\ existing' = S
             /\ IF files = <<>>
                THEN /\ logged' = Append(logged,
                           "No video clips were successfully downloaded")
                     /\ pc' = "return"
                ELSE /\ pc' = "processing"
                     /\ UNCHANGED logged
    /\ clip' = 0
    /\ UNCHANGED <<runArgs, notRun, spike_seconds, processed_files,
                   commands_run, highlights, chat_df, final_ranges>>

\* Lines 218-257, the download phase.
RCG_Download ==
    /\ op = "run_clip_generator" /\ pc = "download"
    /\ IF ~dry_run
       THEN \E S \in SUBSET (1..Len(final_ranges)) :
               LET files == download_specific_clips(final_ranges, S)
               IN /\ calls' = Append(calls,
                        Call("download_specific_clips", "returns"))
                  /\ raw_files' = files
                  /\ existing' = S
                  /\ IF files = <<>>
                     THEN /\ logged' = Append(logged,
                                "No video clips were successfully downloaded")
                          /\ pc' = "return"
                     ELSE /\ pc' = "processing"
                          /\ UNCHANGED logged
       ELSE /\ pc' = "processing"
            /\ UNCHANGED <<calls, raw_files, existing, logged>>
    /\ clip' = 0
    /\ UNCHANGED <<runArgs, notRun, spike_seconds, processed_files,
                   commands_run, highlights, chat_df, final_ranges>>

\* Lines 263-333, one turn of the processing loop for i = clip.  In a dry run
\* the two commands are logged; otherwise raw_files[i] is normalized when
\* there is such a file.  normalize_clip (src/src/video.py:31-62) returns
\* True, returns False on ffmpeg.Error or lets another exception through, and
\* in each case removes its input file.
RCG_ProcessClip ==
    /\ op = "run_clip_generator" /\ pc = "processing"
    /\ clip < Len(final_ranges)
    /\ IF dry_run
       THEN /\ commands_run' = commands_run \o
                <<Command("dry_run_download_clip", clip + 1, TRUE),
                  Command("dry_run_transcode_clip", clip + 1, TRUE)>>
            /\ UNCHANGED <<calls, logged, existing, processed_files>>
       ELSE IF clip < Len(raw_files)
       THEN \E result \in {"True", "False", "raises"} :
               /\ calls' = Append(calls, Call("normalize_clip", result))
               /\ existing' = existing \ {raw_files[clip + 1]}
               /\ processed_files' =
                    IF result = "True" THEN Append(processed_files, clip + 1)
                    ELSE processed_files
               /\ commands_run' =
                    IF result = "raises" THEN commands_run
                    ELSE Append(commands_run,
                                Command("normalize_clip", clip + 1,
                                        result = "True"))
               /\ logged' =
                    IF result = "True" THEN logged
                    ELSE Append(logged, "Failed to normalize")
       ELSE /\ logged' = Append(logged, "Skipping clip")
            /\ UNCHANGED <<calls, existing, processed_files, commands_run>>
    /\ clip' = clip + 1
    /\ pc' = pc
    /\ UNCHANGED <<runArgs, notRun, spike_seconds, raw_files, highlights,
                   chat_df, final_ranges>>

\* Lines 336-389, the export phase after the loop.  ffmpeg.probe fails on a
\* file that is not there and may fail on one that is.
RCG_Export ==
    /\ op = "run_clip_generator" /\ pc = "processing"
    /\ clip = Len(final_ranges)
    /\ IF ~dry_run /\ processed_files # <<>>
       THEN \E probe \in {"returns", "raises"}, edl \in {"returns", "raises"} :
               IF probe = "raises" \/ raw_files[1] \notin existing
               THEN /\ calls' = Append(calls,
                                       Call("get_video_metadata", "raises"))
                    /\ logged' = Append(logged, "Failed to generate EDL")
               ELSE /\ calls' = calls \o
                        <<Call("get_video_metadata", "returns"),
                          Call("generate_professional_edl", edl)>>
                    /\ logged' = IF edl = "raises"
                                 THEN Append(logged, "Failed to generate EDL")
                                 ELSE logged
       ELSE UNCHANGED <<calls, logged>>
    /\ pc' = "report"
    /\ UNCHANGED <<runArgs, notRun, runLocals, chat_df, final_ranges>>

\* Lines 391-435: GENERATE_ANALYSIS_REPORT is True (src/config.py:52).
RCG_Report ==
    /\ op = "run_clip_generator" /\ pc = "report"
    /\ \E outcome \in {"returns", "raises"} :
          /\ calls' = Append(calls, Call("generate_reports", outcome))
          /\ logged' = IF outcome = "raises"
                       THEN Append(logged, "Failed to save analysis report")
                       ELSE logged
    /\ pc' = "return"
    /\ UNCHANGED <<runArgs, notRun, runLocals, chat_df, final_ranges>>

NextRun ==
    \/ RCG_Validate
    \/ RCG_Phase1
    \/ RCG_Phase2
    \/ RCG_Download
    \/ RCG_ProcessClip
    \/ RCG_Export
    \/ RCG_Report

SpecRun == InitRun /\ [][NextRun]_vars

-----------------------------------------------------------------------------
(* ReportGenerator.generate_reports, src/src/reporting.py:25-77 *)

\* REPORT_FORMAT is kept as the list REPORT_FORMAT.split(",").  A generated
\* file is named by its format.  A reporter's generate_report returns the
\* path or raises (it writes a file).

MaxFormats == 3     \* generate_reports: at most MaxFormats formats
FormatTokens == {"html", "json", "txt", " txt", "all", "pdf"}
ReportFormats == SeqsUpTo(FormatTokens, MaxFormats) \ {<<>>}
all_formats == <<"html", "json", "txt">>

InitReport ==
    /\ op = "generate_reports" /\ pc = "call"
    /\ report_format \in ReportFormats
    /\ format_index = 0
    /\ generated_files = <<>>
    /\ IdleCore /\ IdleTranscript /\ IdleRun /\ IdleParser

\* The calls of the "all" branch, lines 37-51, with the formats in ok
\* succeeding.
AllCalls(ok) ==
    [k \in 1..Len(all_formats) |->
        Call(all_formats[k],
             IF all_formats[k] \in ok THEN "returns" ELSE "raises")]
AllFiles(ok) == LET In(f) == f \in ok IN SelectSeq(all_formats, In)
AllErrors(ok) ==
    LET Out(f) == f \notin ok
    IN [k \in 1..Len(SelectSeq(all_formats, Out)) |-> "Failed to generate report"]

\* Lines 31-75, one turn of the loop over the formats.  For html, json and
\* txt generate_report is called at lines 56/60/64, outside any try, and
\* again at line 71 inside the try.
GR_Format ==
    /\ op = "generate_reports" /\ pc = "call"
    /\ format_index < Len(report_format)
    /\ LET format_type == Strip(report_format[format_index + 1])
       IN IF format_type = "all"
          THEN \E ok \in SUBSET {"html", "json", "txt"} :
                  /\ calls' = calls \o AllCalls(ok)
                  /\ generated_files' = generated_files \o AllFiles(ok)
                  /\ logged' = logged \o AllErrors(ok)
                  /\ pc' = pc
          ELSE IF format_type \in {"html", "json", "txt"}
          THEN \E first \in {"returns", "raises"},
                  second \in {"returns", "raises"} :
                  IF first = "raises"
                  THEN /\ calls' = Append(calls, Call(format_type, first))
                       /\ pc' = "raise"
                       /\ UNCHANGED <<generated_files, logged>>
                  ELSE /\ calls' = calls \o <<Call(format_type, first),
                                             Call(format_type, second)>>
                       /\ generated_files' =
                            IF second = "returns"
                            THEN generated_files \o <<format_type, format_type>>
                            ELSE Append(generated_files, format_type)
                       /\ logged' =
                            IF second = "returns" THEN logged
                            ELSE Append(logged, "Failed to generate report")
                       /\ pc' = pc
          ELSE /\ logged' = Append(logged, "Unsupported report format")
               /\ pc' = pc
               /\ UNCHANGED <<calls, generated_files>>
    /\ format_index' = format_index + 1
    /\ UNCHANGED <<op, coreVars, transcriptVars, report_format, url, dry_run,
                   analysis_impl, runLocals, chat_lines>>

\* Line 77: return generated_files.
GR_Return ==
    /\ op = "generate_reports" /\ pc = "call"
    /\ format_index = Len(report_format)
    /\ pc' = "return"
    /\ UNCHANGED <<op, coreVars, auxVars>>

NextReport == GR_Format \/ GR_Return

SpecReport == InitReport /\ [][NextReport]_vars

-----------------------------------------------------------------------------
(* The chat parsers: parse_youtube_chat_json, src/src/parsers.py:265-412,   *)
(* and parse_live_chat_json, src/parsers.py:165-268                         *)

\* A line of the file is one chat action: videoOffsetTimeMsec (<<>> when the
\* key is missing), the renderer's timestampUsec and the message text ("" for
\* a message without text).  As in the fixtures of src/tests.py:37-40 the
\* offsets are whole seconds and timestampUsec is 1000 * videoOffsetTimeMsec.

\* df.sort_values(key), as a stable insertion sort.
RECURSIVE InsertByKey(_, _, _)
InsertByKey(x, rows, key) ==
    IF rows = <<>> THEN <<x>>
    ELSE IF x[key] < Head(rows)[key] THEN <<x>> \o rows
    ELSE <<Head(rows)>> \o InsertByKey(x, Tail(rows), key)

RECURSIVE SortByKey(_, _)
SortByKey(rows, key) ==
    IF rows = <<>> THEN <<>>
    ELSE InsertByKey(rows[Len(rows)], SortByKey(SubSeq(rows, 1, Len(rows) - 1), key),
                     key)

\* src/src/parsers.py:265-412.  Lines without an official offset or without
\* text give no record; offset_seconds = int(video_offset_msec) / 1000.0; the
\* records are sorted, those with a negative offset are filtered out and the
\* minute column is added.
parse_youtube_chat_json(lines) ==
    LET HasRecord(l) == l.videoOffsetTimeMsec # <<>> /\ l.message # ""
        kept == SelectSeq(lines, HasRecord)
        chat_records ==
            [i \in 1..Len(kept) |->
                [offset_seconds |-> kept[i].videoOffsetTimeMsec[1] \div 1000,
                 message |-> kept[i].message]]
        NotNegative(r) == r.offset_seconds >= 0
        df_chat == SelectSeq(SortByKey(chat_records, "offset_seconds"),
                             NotNegative)
    IN [i \in 1..Len(df_chat) |->
          [offset_seconds |-> df_chat[i].offset_seconds,
           message |-> df_chat[i].message,
           minute |-> df_chat[i].offset_seconds \div 60]]

\* src/parsers.py:165-268.  Every line with text gives a record stamped
\* timestampUsec // 1_000_000; the records are sorted and offset_seconds is
\* the distance to the earliest stamp.  There is no filter and no minute
\* column.
parse_live_chat_json(lines) ==
    LET HasRecord(l) == l.message # ""
        kept == SelectSeq(lines, HasRecord)
        chat_records ==
            [i \in 1..Len(kept) |->
                [absolute_timestamp_seconds |->
                    kept[i].timestampUsec \div 1000000,
                 message |-> kept[i].message]]
        df_chat == SortByKey(chat_records, "absolute_timestamp_seconds")
        stream_start_time ==
            SeqMin([i \in 1..Len(df_chat) |->
                       df_chat[i].absolute_timestamp_seconds])
    IN [i \in 1..Len(df_chat) |->
          [offset_seconds |->
              df_chat[i].absolute_timestamp_seconds - stream_start_time,
           message |-> df_chat[i].message]]

\* Inputs: offsets of -1 s (before the stream), 2 s and 61 s, given or
\* missing in the line, with or without text, in any file order.
MaxLines == 3       \* chat files: at most MaxLines lines
OffsetsMsec == {-1000, 2000, 61000}
ChatLine(msec, given, text) ==
    [videoOffsetTimeMsec |-> IF given THEN <<msec>> ELSE <<>>,
     timestampUsec |-> 1000 * msec, message |-> text]
ChatLines ==
    {ChatLine(m, TRUE, t) : m \in OffsetsMsec, t \in {"nice", ""}}
        \cup {ChatLine(2000, FALSE, "nice")}
ChatFiles == SeqsUpTo(ChatLines, MaxLines)

InitParser ==
    /\ op \in {"parse_youtube_chat_json", "parse_live_chat_json"}
    /\ pc = "call"
    /\ chat_lines \in ChatFiles
    /\ IdleCore /\ IdleTranscript /\ IdleRun /\ IdleReport

parserFrame ==
    <<op, mergeVars, robustVars, madVars, pipeVars, dynVars,
      threshold_multiplier, transcriptVars, runVars, reportVars, chat_lines>>

CallParseYoutubeChatJson ==
    /\ op = "parse_youtube_chat_json" /\ pc = "call"
    /\ chat_df' = parse_youtube_chat_json(chat_lines)
    /\ pc' = "return"
    /\ UNCHANGED parserFrame

CallParseLiveChatJson ==
    /\ op = "parse_live_chat_json" /\ pc = "call"
    /\ chat_df' = parse_live_chat_json(chat_lines)
    /\ pc' = "return"
    /\ UNCHANGED parserFrame

NextParser == CallParseYoutubeChatJson \/ CallParseLiveChatJson

SpecParser == InitParser /\ [][NextParser]_vars

-----------------------------------------------------------------------------
(* Properties of the interval merger *)

SortedByStart(rs) == \A i \in 1..(Len(rs) - 1) : rs[i][1] <= rs[i + 1][1]
Separated(rs, g) == \A i \in 1..(Len(rs) - 1) : rs[i + 1][1] - rs[i][2] > g
NoOverlap(rs) == \A i, j \in 1..Len(rs) : i < j => rs[i][2] < rs[j][1]

\* The reference merge, stated without the sweep: the ranges in start order
\* (ties in input order), cut into maximal groups in which every range starts
\* at most g after the largest end seen so far in its group.
RankSorted(R) ==
    LET rank(i) == 1 + Cardinality({j \in 1..Len(R) :
                          \/ R[j][1] < R[i][1]
                          \/ (R[j][1] = R[i][1] /\ j < i)})
    IN [k \in 1..Len(R) |-> R[CHOOSE i \in 1..Len(R) : rank(i) = k]]

MaxEndOver(s, i, j) ==
    CHOOSE e \in {s[k][2] : k \in i..j} : \A k \in i..j : s[k][2] <= e

GroupLast(s, i, g) ==
    CHOOSE j \in i..Len(s) :
        /\ \A k \in (i + 1)..j : s[k][1] <= MaxEndOver(s, i, k - 1) + g
        /\ j = Len(s) \/ s[j + 1][1] > MaxEndOver(s, i, j) + g

RECURSIVE RefGroups(_, _, _)
RefGroups(s, i, g) ==
    IF i > Len(s) THEN <<>>
    ELSE LET j == GroupLast(s, i, g)
         IN <<<<s[i][1], MaxEndOver(s, i, j)>>>> \o RefGroups(s, j + 1, g)

RefMerge(R, g) == RefGroups(RankSorted(R), 1, g)

ClampStarts(rs) == [i \in 1..Len(rs) |-> <<Max(0, rs[i][1]), rs[i][2]>>]

MergeReturned == op = "merge_segments" /\ pc = "return"
RobustReturned == op = "robust_merge_ranges" /\ pc = "return"

\* C1: the output of merge_segments(R, g), g >= 0, and of robust_merge_ranges
\* (gap 30) is sorted ascending by start, every adjacent pair of output ranges
\* satisfies start_{i+1} - end_i > g, and no two output ranges overlap.
C1_MergeDisjoint ==
    /\ MergeReturned =>
          /\ SortedByStart(merged)
          /\ Separated(merged, gap_threshold)
          /\ NoOverlap(merged)
    /\ RobustReturned =>
          /\ SortedByStart(final_ranges)
          /\ Separated(final_ranges, MERGE_THRESHOLD)
          /\ NoOverlap(final_ranges)

\* C1 witness: three ranges went in, two came out: one pair was merged and one
\* pair was kept apart.
C1_Witness ==
    /\ MergeReturned
    /\ Len(segments) = 3
    /\ Len(merged) = 2

\* C2: merging is idempotent: merge_segments(merge_segments(R, g), g) equals
\* merge_segments(R, g).
C2_MergeIdempotent ==
    MergeReturned => merge_segments(merged, gap_threshold) = merged

\* C2 witness: the first merge changed the list and left two ranges to merge
\* again.
C2_Witness ==
    /\ MergeReturned
    /\ Len(merged) = 2
    /\ merged # segments

\* C3: merge_segments(R, g) returns the reference result: R in start order,
\* grouped while next_start <= running_end + g, each group emitted as (start
\* of its first range, maximum end over the group); empty R gives an empty
\* result and a single range is returned unchanged.  (segments holds R in
\* start order after the call; the reference orders its argument itself.)
C3_MergeIsReference ==
    MergeReturned =>
        /\ merged = RefMerge(segments, gap_threshold)
        /\ segments = <<>> => merged = <<>>
        /\ Len(segments) = 1 => merged = segments

\* C3 witness: (0,1) is contained in (0,2) and does not shrink the end, and
\* (3,4) starts exactly g = 1 after that end and is still merged.
C3_Witness ==
    /\ MergeReturned
    /\ gap_threshold = 1
    /\ segments = << <<0, 2>>, <<0, 1>>, <<3, 4>> >>
    /\ merged = << <<0, 4>> >>

\* C4: merge_segments has no side effect: the caller's list R holds the same
\* ranges in the same order after the call as before it.
C4_CallerListUnchanged ==
    [][op = "merge_segments" => segments' = segments]_vars

\* C5: robust_merge_ranges(times, pad_pre, pad_post) maps every peak second p
\* to (p - pad_pre, p + pad_post), merges raw ranges whose gap is <= 30 and
\* clamps every emitted start to >= 0; peaks [100, 140] with pad_pre = 120 and
\* pad_post = 60 give the single range (0, 200).
C5_FixedPadding ==
    RobustReturned =>
        /\ final_ranges =
              ClampStarts(RefMerge(PaddedRanges(times, pad_pre, pad_post), 30))
        /\ \A i \in 1..Len(final_ranges) : final_ranges[i][1] >= 0
        /\ (times = <<100, 140>> /\ pad_pre = 120 /\ pad_post = 60)
              => final_ranges = << <<0, 200>> >>

\* C5 witness: scenario 3 has run.
C5_Witness ==
    /\ RobustReturned
    /\ times = <<100, 140>> /\ pad_pre = 120 /\ pad_post = 60
    /\ final_ranges = << <<0, 200>> >>

-----------------------------------------------------------------------------
(* Properties of the pipeline and of the boundary expander *)

PipelineReturned == op = "process_chat_signals" /\ pc = "return"

ValidRanges(rs) == \A i \in 1..Len(rs) : 0 <= rs[i][1] /\ rs[i][1] < rs[i][2]

\* C6: every final highlight range is valid: for chat events with
\* offset_seconds >= 0 every (start, end) returned by process_chat_signals, and
\* every range returned by robust_merge_ranges for peak times >= 0, pad_pre >= 0
\* and pad_post > 0, satisfies 0 <= start < end.
C6_ValidRanges ==
    /\ PipelineReturned => ValidRanges(final_segments)
    /\ RobustReturned => ValidRanges(final_ranges)

\* C6 witness: the pipeline has returned a highlight whose start was floored
\* at 0 (the pre-roll of its peak would start before the stream).
C6_Witness ==
    /\ PipelineReturned
    /\ Len(final_segments) = 1
    /\ final_segments[1][1] = 0
    /\ highlight_minutes[1] * 60 - DefaultParams.min_pre_padding < 0

\* The states that hold the output of get_dynamic_segments next to its
\* arguments: the isolated call, and the pipeline before merge_segments
\* reorders raw_segments.
ExpanderReturned ==
    \/ op = "get_dynamic_segments" /\ pc = "return"
    \/ op = "process_chat_signals" /\ pc = "expanded"
ExpanderParams == IF op = "get_dynamic_segments" THEN params ELSE DefaultParams
\* The peak minute of raw_segments[i].
PeakOf(i) == SortInts(highlight_minutes)[i]

\* C7 as claimed: for every peak minute m passed to get_dynamic_segments the
\* emitted start is at most peak_second - min_pre_padding.
C7_PreRollAlways ==
    ExpanderReturned =>
        \A i \in 1..Len(raw_segments) :
            raw_segments[i][1] <= PeakOf(i) * 60 - ExpanderParams.min_pre_padding

\* C7 amended: the emitted start is at most max(min_minute * 60, peak_second -
\* min_pre_padding): the pre-roll is at least min_pre_padding seconds whenever
\* peak_second - min_pre_padding is not before the first chat minute, and
\* otherwise the segment starts exactly at min_minute * 60.
C7_PreRollUnlessFloored ==
    ExpanderReturned =>
        \A i \in 1..Len(raw_segments) :
            LET safe == PeakOf(i) * 60 - ExpanderParams.min_pre_padding
                floor == MinuteMin(chat_df) * 60
            IN /\ raw_segments[i][1] <= Max(floor, safe)
               /\ safe >= floor => raw_segments[i][1] <= safe
               /\ safe < floor => raw_segments[i][1] = floor

\* C7 witness: the start search stops at minute 2, later than the safe start
\* 3 * 60 - 180 = 0, and the segment still starts at the safe start.
C7_Witness ==
    /\ op = "get_dynamic_segments" /\ pc = "return"
    /\ params = DefaultParams
    /\ highlight_minutes = <<3>>
    /\ MinuteMin(chat_df) = 0
    /\ FindStart(CountsSeries(chat_df), 2, 0, 3, baseline_median,
                 params.activity_multiplier) = 2
    /\ raw_segments[1][1] = 0

\* C8: the per-minute series the pipeline aggregates and hands to the peak
\* detector is dense: it has a row for every integer minute between the
\* smallest and the largest minute of the events, so consecutive positions are
\* consecutive minutes.
C8_DenseSeries ==
    (op = "process_chat_signals" /\ pc \in {"aggregated", "highlight_scored"}) =>
        /\ {metrics[i].minute : i \in 1..Len(metrics)} =
              MinuteMin(chat_df)..MinuteMax(chat_df)
        /\ \A i \in 1..(Len(metrics) - 1) :
              metrics[i + 1].minute = metrics[i].minute + 1

\* C9: an empty input yields an empty range list and no error on every path:
\* process_chat_signals on an empty chat returns [] without entering a stage,
\* merge_segments([]) returns [] and robust_merge_ranges([], ...) returns [].
C9_EmptyClosure ==
    /\ (op = "process_chat_signals" /\ chat_df = <<>>) =>
          /\ pc \in {"call", "return"}
          /\ pc = "return" => final_segments = <<>>
    /\ (MergeReturned /\ segments = <<>>) => merged = <<>>
    /\ (RobustReturned /\ times = <<>>) => final_ranges = <<>>

\* C9 witness: the pipeline has returned on an empty chat table.
C9_Witness ==
    /\ PipelineReturned
    /\ chat_df = <<>>
    /\ final_segments = <<>>

-----------------------------------------------------------------------------
(* Properties of the MAD peak detector *)

MadReturned == op = "detect_mad_peaks" /\ pc = "return"

Scenario2 == <<2, 2, 2, 2, 2, 50, 2, 2, 2, 2>>

\* C10: on the series [2,2,2,2,2,50,2,2,2,2] the median is 2 and the MAD is 0,
\* replaced by 1; with threshold_multiplier 1.0 the threshold is 3 and the only
\* peak is index 5, with threshold_multiplier 100.0 the threshold is 102 and
\* there is no peak.
C10_MadScenario ==
    (MadReturned /\ counts = Scenario2) =>
        /\ Median2(counts) = 2 * 2
        /\ Median2([i \in 1..Len(counts) |-> Abs(2 * counts[i] - 4)]) = 0
        /\ threshold_multiplier = 10 =>
              /\ Threshold40(counts, 1, 10) = 40 * 3
              /\ peaks = <<5>>
        /\ threshold_multiplier = 1000 =>
              /\ Threshold40(counts, 1, 1000) = 40 * 102
              /\ peaks = <<>>

\* C10 witness: the detector has run on the scenario with multiplier 100.0
\* and suppressed the spike.
C10_Witness ==
    /\ MadReturned
    /\ counts = Scenario2
    /\ threshold_multiplier = 1000
    /\ peaks = <<>>

-----------------------------------------------------------------------------
(* Properties of the transcript lookup *)

TranscriptReturned == op = "get_transcript_segment" /\ pc = "return"

\* The rows of df at the indices in I, in table order.
RowsAt(df, I) ==
    LET idx == AscendingSeq(I) IN [k \in 1..Len(idx) |-> df[idx[k]]]

\* C11: with both bounds get_transcript_segment returns, in transcript
\* order, exactly the rows whose start lies in [start, end], or whose end lies
\* in [start, end], or which contain [start, end]; when start <= end (rows
\* have start <= end) these are the rows with row.start <= end and row.end >=
\* start, so a row (58, 62) is returned for the query (60, 120).  With only
\* start given it returns the rows with row.end >= start, with only end the
\* rows with row.start <= end, and with no bound the whole transcript.
C11_TranscriptOverlap ==
    TranscriptReturned =>
        LET Rows == 1..Len(transcript_df)
            S(i) == transcript_df[i].offset_start_seconds
            E(i) == transcript_df[i].offset_end_seconds
        IN /\ (start_time # <<>> /\ end_time # <<>>) =>
                LET st == start_time[1]
                    en == end_time[1]
                IN /\ transcript_segment =
                        RowsAt(transcript_df,
                               {i \in Rows : \/ S(i) \in st..en
                                             \/ E(i) \in st..en
                                             \/ (S(i) <= st /\ E(i) >= en)})
                   /\ st <= en =>
                        transcript_segment =
                            RowsAt(transcript_df,
                                   {i \in Rows : S(i) <= en /\ E(i) >= st})
                   /\ (st = 60 /\ en = 120) =>
                        \A i \in Rows :
                            (S(i) = 58 /\ E(i) = 62) =>
                                \E k \in 1..Len(transcript_segment) :
                                    transcript_segment[k] = transcript_df[i]
           /\ (start_time # <<>> /\ end_time = <<>>) =>
                transcript_segment =
                    RowsAt(transcript_df, {i \in Rows : E(i) >= start_time[1]})
           /\ (start_time = <<>> /\ end_time # <<>>) =>
                transcript_segment =
                    RowsAt(transcript_df, {i \in Rows : S(i) <= end_time[1]})
           /\ (start_time = <<>> /\ end_time = <<>>) =>
                transcript_segment = transcript_df

\* Scenario 5 next to a row that contains the range and a row after it.
C11_Witness ==
    /\ TranscriptReturned
    /\ start_time = <<60>> /\ end_time = <<120>>
    /\ transcript_df =
        <<[offset_start_seconds |-> 58, offset_end_seconds |-> 62],
          [offset_start_seconds |-> 130, offset_end_seconds |-> 130]>>
    /\ transcript_segment =
        <<[offset_start_seconds |-> 58, offset_end_seconds |-> 62]>>

-----------------------------------------------------------------------------
(* Properties of run_clip_generator *)

RunStarted == op = "run_clip_generator"
CallsMade == {calls[k].fn : k \in 1..Len(calls)}
Logged == {logged[k] : k \in 1..Len(logged)}

\* The steps that touch the video.
VideoSteps ==
    {"download_specific_clips", "normalize_clip", "get_video_metadata",
     "generate_professional_edl"}

\* The commands a dry run logs for n ranges: download and transcode of clip
\* 1, then of clip 2, ...
DryRunCommands(n) ==
    [k \in 1..(2 * n) |->
        Command(IF k % 2 = 1 THEN "dry_run_download_clip"
                ELSE "dry_run_transcode_clip",
                (k + 1) \div 2, TRUE)]

\* C12: in a dry run run_clip_generator never downloads a clip, never
\* normalizes one, never probes video metadata and never generates an EDL,
\* whatever the number of spikes; it logs the download and the transcode
\* command of every range instead.
C12_DryRunTouchesNoVideo ==
    (RunStarted /\ dry_run) =>
        /\ CallsMade \cap VideoSteps = {}
        /\ raw_files = <<>> /\ processed_files = <<>>
        /\ \A k \in 1..Len(commands_run) :
              commands_run[k] = DryRunCommands(Len(final_ranges))[k]
        /\ pc = "report" => commands_run = DryRunCommands(Len(final_ranges))

\* A dry run over two ranges that ran to its end.
C12_Witness ==
    /\ RunStarted /\ dry_run /\ pc = "return"
    /\ Len(final_ranges) = 2
    /\ Len(commands_run) = 4
    /\ "generate_reports" \in CallsMade

InvalidUrls == {<<>>, <<"">>, <<"not-a-url">>, <<"ftp://invalid.com">>}

\* C13: run_clip_generator ends the process with SystemExit for every invalid
\* url: the empty string, None, "not-a-url" and "ftp://invalid.com".
C13_InvalidUrlExits ==
    (RunStarted /\ url \in InvalidUrls /\ pc \in {"return", "SystemExit"}) =>
        pc = "SystemExit"

\* The calls of Phase 1 and Phase 2 that raised.
PhaseFailures ==
    {k \in 1..Len(calls) :
        /\ calls[k].outcome = "raises"
        /\ calls[k].fn \in {"download_chat_and_transcript", "parse_chat_log",
                            "process_chat_signals"}}

\* C14: when the chat download or parsing of Phase 1 or process_chat_signals
\* of Phase 2 raises, run_clip_generator logs the error and returns normally
\* (no SystemExit), and the call that raised is the last step of the run: no
\* download, transcode, EDL or report step follows it.
C14_PhaseFailureReturns ==
    (RunStarted /\ PhaseFailures # {}) =>
        /\ pc = "return"
        /\ PhaseFailures = {Len(calls)}
        /\ (VideoSteps \cup {"generate_reports"}) \cap CallsMade = {}
        /\ logged[Len(logged)] =
              IF calls[Len(calls)].fn = "process_chat_signals"
              THEN "Failed during signal analysis phase"
              ELSE "Failed during metadata and chat analysis phase"

\* The analysis stand-in raises in a run that is not a dry run.
C14_Witness ==
    /\ RunStarted /\ ~dry_run /\ analysis_impl = "patched"
    /\ pc = "return"
    /\ Len(calls) = 3
    /\ calls[3] = Call("process_chat_signals", "raises")

-----------------------------------------------------------------------------
(* Properties of the report generator *)

ReportsReturned == op = "generate_reports" /\ pc = "return"

\* How often the format f is configured, and how often its reporter ran.
Configured(f) ==
    Cardinality({k \in 1..Len(report_format) : Strip(report_format[k]) = f})
Invoked(f) == Cardinality({k \in 1..Len(calls) : calls[k].fn = f})

\* C15: generate_reports returns exactly one path per configured format (one
\* for "html", "json" or "txt", three for "html,json,txt"), and each
\* reporter's generate_report runs once per configured format.  Stated for
\* the runs in which every format is one of the three and no reporter raises.
C15_OnePathPerFormat ==
    (/\ ReportsReturned
     /\ \A k \in 1..Len(report_format) :
           Strip(report_format[k]) \in {"html", "json", "txt"}
     /\ \A k \in 1..Len(calls) : calls[k].outcome = "returns") =>
        /\ Len(generated_files) = Len(report_format)
        /\ \A f \in {"html", "json", "txt"} : Invoked(f) = Configured(f)

-----------------------------------------------------------------------------
(* Properties of the chat parsers *)

ParserReturned ==
    op \in {"parse_youtube_chat_json", "parse_live_chat_json"} /\ pc = "return"

\* The official offsets, in seconds, of the lines that carry text and were
\* sent at or after the start of the stream, in ascending order.
OfficialOffsets ==
    LET Counts(l) ==
            /\ l.videoOffsetTimeMsec # <<>> /\ l.message # ""
            /\ l.videoOffsetTimeMsec[1] >= 0
        kept == SelectSeq(chat_lines, Counts)
    IN SortInts([i \in 1..Len(kept) |-> kept[i].videoOffsetTimeMsec[1] \div 1000])

\* C16: in the table a chat parser returns every event has offset_seconds >=
\* 0, an event with a negative official video offset is dropped and the
\* others keep their official offsets (nothing is shifted), the events are in
\* ascending offset order, and each event's minute is floor(offset_seconds /
\* 60).
C16_ParserContract ==
    ParserReturned =>
        /\ \A i \in 1..Len(chat_df) :
              /\ chat_df[i].offset_seconds >= 0
              /\ "minute" \in DOMAIN chat_df[i]
              /\ chat_df[i]["minute"] = chat_df[i].offset_seconds \div 60
        /\ \A i \in 1..(Len(chat_df) - 1) :
              chat_df[i].offset_seconds <= chat_df[i + 1].offset_seconds
        /\ [i \in 1..Len(chat_df) |-> chat_df[i].offset_seconds] = OfficialOffsets

\* The same contract asked of parse_youtube_chat_json alone (it holds there).
C16_YoutubeParserContract == op = "parse_youtube_chat_json" => C16_ParserContract

-----------------------------------------------------------------------------
(* Properties of the boundary searches of get_dynamic_segments *)

\* The arguments of the searches for the peak of raw_segments[i].
ExpanderCounts == CountsSeries(chat_df)
Quiet(m) ==
    BelowThreshold(ExpanderCounts, m, baseline_median,
                   ExpanderParams.activity_multiplier)
SearchStart(i) ==
    Max(MinuteMin(chat_df), PeakOf(i) - ExpanderParams.buildup_window)
SearchEnd(i) ==
    Min(MinuteMax(chat_df), PeakOf(i) + ExpanderParams.winddown_window)

\* start_min after the loop of lines 76-80, for the peak of raw_segments[i].
DynamicStartMin(i) ==
    FindStart(ExpanderCounts, PeakOf(i) - 1, SearchStart(i), PeakOf(i),
              baseline_median, ExpanderParams.activity_multiplier)

\* The earliest minute k of the walk such that every minute from k to the one
\* before the peak is elevated; the peak minute itself when the minute before
\* it is quiet or not in the walk.
ElevatedRunStart(i) ==
    CHOOSE k \in SearchStart(i)..PeakOf(i) :
        /\ \A j \in k..(PeakOf(i) - 1) : ~Quiet(j)
        /\ \A l \in SearchStart(i)..(k - 1) :
              \E j \in l..(PeakOf(i) - 1) : Quiet(j)

\* C17: the backward walk from m-1 down to max(min_minute, m -
\* buildup_window) stops at the first quiet minute and keeps the last elevated
\* one: the dynamic start minute is the earliest minute of the unbroken
\* elevated run that ends at m-1, and m itself when m-1 is already quiet.
C17_StartIsEarliestElevated ==
    ExpanderReturned =>
        \A i \in 1..Len(raw_segments) : DynamicStartMin(i) = ElevatedRunStart(i)

\* What the loop computes instead: the first quiet minute met, when there is
\* one in the walk.
C17_StartIsFirstQuiet ==
    ExpanderReturned =>
        \A i \in 1..Len(raw_segments) :
            DynamicStartMin(i) =
                IF \E j \in SearchStart(i)..(PeakOf(i) - 1) : Quiet(j)
                THEN ElevatedRunStart(i) - 1
                ELSE ElevatedRunStart(i)

\* end_min after the loop of lines 91-100, for the peak of raw_segments[i].
DynamicEndMin(i) ==
    FindEnd(ExpanderCounts, PeakOf(i) + 1, SearchEnd(i), 0, PeakOf(i),
            baseline_median, ExpanderParams.activity_multiplier,
            ExpanderParams.drop_off_confirm_mins)

\* The minutes of the forward walk at which drop_off_confirm_mins quiet
\* minutes in a row begin.
StreakStarts(i) ==
    {q \in (PeakOf(i) + 1)..SearchEnd(i) :
        /\ q + ExpanderParams.drop_off_confirm_mins - 1 <= SearchEnd(i)
        /\ \A j \in q..(q + ExpanderParams.drop_off_confirm_mins - 1) : Quiet(j)}
FirstStreak(i) == CHOOSE q \in StreakStarts(i) : \A r \in StreakStarts(i) : q <= r

\* C18: in the forward walk from m+1 up to min(max_minute, m +
\* winddown_window) a quiet minute followed by an elevated one does not end
\* the segment; once drop_off_confirm_mins minutes in a row are quiet the
\* dynamic end is (q + 1) * 60 for the first minute q of that streak; without
\* such a streak it is (last minute of the walk + 1) * 60; the final end is
\* max(dynamic end, peak_second + min_post_padding).
C18_EndSearch ==
    ExpanderReturned =>
        \A i \in 1..Len(raw_segments) :
            LET dynamic_end ==
                    IF StreakStarts(i) # {} THEN (FirstStreak(i) + 1) * 60
                    ELSE (SearchEnd(i) + 1) * 60
            IN /\ (DynamicEndMin(i) + 1) * 60 = dynamic_end
               /\ raw_segments[i][2] =
                    Max(dynamic_end,
                        PeakOf(i) * 60 + ExpanderParams.min_post_padding)

\* A quiet minute, an elevated one and a quiet one after the peak: the streak
\* is reset and the walk runs to its last minute.
C18_Witness ==
    /\ op = "get_dynamic_segments" /\ pc = "return"
    /\ params = DefaultParams
    /\ highlight_minutes = <<0>>
    /\ MinuteMax(chat_df) = 3
    /\ Quiet(1) /\ ~Quiet(2) /\ Quiet(3)
    /\ DynamicEndMin(1) = 3
    /\ raw_segments[1][2] = 240

-----------------------------------------------------------------------------
(* Properties of the stages on empty input *)

ExpanderLeft == op = "get_dynamic_segments" /\ pc # "call"

\* C19: every stage tolerates empty input and returns its empty collection
\* instead of raising: get_dynamic_segments on an empty event table (with an
\* empty peak list or not) returns an empty segment list, and
\* detect_mad_peaks on an empty series returns an empty peak sequence.
C19_EmptyInputTolerated ==
    /\ (ExpanderLeft /\ chat_df = <<>>) =>
          (pc = "return" /\ raw_segments = <<>>)
    /\ (MadReturned /\ counts = <<>>) => peaks = <<>>

\* What the stages do on empty input: detect_mad_peaks returns no peak, and
\* get_dynamic_segments returns [] for an empty peak list on a non-empty
\* table but raises on every empty table.
C19_EmptyTableRaises ==
    /\ (ExpanderLeft /\ chat_df = <<>>) => pc = "raise"
    /\ (ExpanderLeft /\ chat_df # <<>>) => pc = "return"
    /\ (ExpanderLeft /\ chat_df # <<>> /\ highlight_minutes = <<>>) =>
          raw_segments = <<>>
    /\ (MadReturned /\ counts = <<>>) => peaks = <<>>

-----------------------------------------------------------------------------
(* Properties of the order of the stages of process_chat_signals *)

\* The position after each stage and the position that follows it.
StageOrder ==
    { <<"call", "sentiment_scored">>, <<"sentiment_scored", "aggregated">>,
      <<"aggregated", "highlight_scored">>,
      <<"highlight_scored", "peaks_detected">>,
      <<"peaks_detected", "expanded">>, <<"expanded", "return">> }
ShortCircuits == { <<"call", "return">>, <<"peaks_detected", "return">> }

PipelineStep ==
    /\ <<pc, pc'>> \in StageOrder \cup ShortCircuits
    /\ pc = "call" =>
          IF chat_df = <<>>
          THEN /\ pc' = "return" /\ final_segments' = <<>>
               /\ UNCHANGED <<chat_df, metrics, peaks, highlight_minutes,
                              baseline_median, raw_segments>>
          ELSE pc' = "sentiment_scored"
    /\ pc = "peaks_detected" =>
          IF highlight_minutes = <<>>
          THEN /\ pc' = "return" /\ final_segments' = <<>>
               /\ UNCHANGED <<baseline_median, raw_segments>>
          ELSE pc' = "expanded"

\* C20: process_chat_signals runs sentiment scoring, minute aggregation,
\* highlight scoring, peak detection, boundary expansion and merge in this
\* order; on an empty event table it returns [] before any stage runs, and
\* when peak detection yields no peak it returns [] without calling
\* get_dynamic_segments or merge_segments.
C20_StageOrder == [][op = "process_chat_signals" => PipelineStep]_vars

\* The stages up to peak detection have run, no peak was found, and the
\* pipeline has returned [] with the expander untouched.
C20_Witness ==
    /\ PipelineReturned
    /\ chat_df # <<>> /\ metrics # <<>>
    /\ highlight_minutes = <<>>
    /\ raw_segments = <<>> /\ final_segments = <<>>

-----------------------------------------------------------------------------
(* Properties of the later phases of run_clip_generator *)

AnalysisReturned ==
    \E k \in 1..Len(calls) : calls[k] = Call("process_chat_signals", "returns")

\* C21: when the analysis finds no highlight, run_clip_generator still runs
\* to the end and generates the analysis report, in a dry run and in a
\* normal run alike.
C21_NoHighlightsStillReports ==
    (RunStarted /\ pc = "return" /\ AnalysisReturned /\ final_ranges = <<>>) =>
        "generate_reports" \in CallsMade

\* What the run does without highlights: a dry run generates the report, a
\* normal run ends in the download phase, which has nothing to download, and
\* generates none.
C21_OnlyDryRunReports ==
    (RunStarted /\ pc = "return" /\ AnalysisReturned /\ final_ranges = <<>>) =>
        IF dry_run
        THEN "generate_reports" \in CallsMade
        ELSE /\ "generate_reports" \notin CallsMade
             /\ calls[Len(calls)] = Call("download_specific_clips", "returns")
             /\ logged[Len(logged)] =
                   "No video clips were successfully downloaded"

\* C22: after a Phase 1 that delivered a non-empty chat, the analysis phase
\* calls process_chat_signals of src/analyze.py with arguments the function
\* accepts, takes its result as the spike seconds, and the run goes on to
\* the download phase instead of ending in Phase 2.
C22_AnalysisAccepted ==
    (/\ RunStarted /\ analysis_impl = "src.analyze"
     /\ chat_df # <<>> /\ pc # "phase2") =>
        /\ AnalysisReturned
        /\ "Failed during signal analysis phase" \notin Logged

\* What the run does with the function of src/analyze.py: the call of lines
\* 185-187 passes a keyword the function does not have, so it never returns
\* and every run that reaches Phase 2 ends there.
C22_RealAnalysisNeverReturns ==
    (RunStarted /\ analysis_impl = "src.analyze") =>
        /\ ~AnalysisReturned
        /\ pc \in {"call", "SystemExit", "phase1", "phase2", "return"}
        /\ spike_seconds = <<>> /\ final_ranges = <<>>
        /\ "process_chat_signals" \in CallsMade =>
              /\ pc = "return"
              /\ logged[Len(logged)] = "Failed during signal analysis phase"

-----------------------------------------------------------------------------
(* Properties that relate the two mergers *)

\* C23: robust_merge_ranges(times, pad_pre, pad_post) equals merge_segments
\* with gap_threshold 30 applied to the padded ranges [(t - pad_pre, t +
\* pad_post)], with each start then replaced by max(0, start).
C23_SameMerger ==
    RobustReturned =>
        final_ranges =
            ClampStarts(merge_segments(PaddedRanges(times, pad_pre, pad_post), 30))

\* Unsorted peak seconds, a start below 0 and two ranges that merge.
C23_Witness ==
    /\ RobustReturned
    /\ times = <<340, 0, 350>> /\ pad_pre = 120 /\ pad_post = 60
    /\ merge_segments(PaddedRanges(times, pad_pre, pad_post), 30) =
          << <<-120, 60>>, <<220, 410>> >>
    /\ final_ranges = << <<0, 60>>, <<220, 410>> >>

-----------------------------------------------------------------------------
(* Properties of the segments of get_dynamic_segments *)

\* C24: every segment of get_dynamic_segments contains the whole peak minute
\* that produced it: for a peak minute m inside the span of the table and
\* paddings >= 0 the segment (start, end) has start <= m * 60 and end >=
\* (m + 1) * 60, and start is never before min_minute * 60.
C24_ContainsPeakMinute ==
    ExpanderReturned =>
        \A i \in 1..Len(raw_segments) :
            /\ raw_segments[i][1] <= PeakOf(i) * 60
            /\ raw_segments[i][2] >= (PeakOf(i) + 1) * 60
            /\ raw_segments[i][1] >= MinuteMin(chat_df) * 60

\* Without padding and with nothing to walk over on either side the segment
\* is exactly the peak minute.
C24_Witness ==
    /\ op = "get_dynamic_segments" /\ pc = "return"
    /\ params = NoPaddingParams
    /\ Len(highlight_minutes) = 1
    /\ MinuteMin(chat_df) = PeakOf(1) /\ MinuteMax(chat_df) = PeakOf(1)
    /\ raw_segments = << <<PeakOf(1) * 60, (PeakOf(1) + 1) * 60>> >>

-----------------------------------------------------------------------------
(* Properties of the peaks at the edges of the series *)

\* No peak index is the first or the last position of a series of n samples,
\* and a series of fewer than three samples has no peak.
InnerPeaks(pks, n) ==
    /\ \A k \in 1..Len(pks) : 0 < pks[k] /\ pks[k] < n - 1
    /\ n < 3 => pks = <<>>

\* C25: detect_mad_peaks never reports the first or the last bucket of the
\* series as a peak, however large its score, and reports no peak for a
\* series of fewer than three buckets; so it is in process_chat_signals.
C25_NoEdgePeaks ==
    /\ MadReturned => InnerPeaks(peaks, Len(counts))
    /\ (op = "process_chat_signals" /\ pc = "peaks_detected") =>
          /\ InnerPeaks(peaks, Len(metrics))
          /\ Len(metrics) < 3 => highlight_minutes = <<>>

\* A spike of 50 in the first and in the last of four buckets, and no peak.
C25_Witness ==
    /\ MadReturned
    /\ counts = <<50, 2, 2, 50>>
    /\ threshold_multiplier = 10
    /\ peaks = <<>>

-----------------------------------------------------------------------------
(* Properties of the highlight scores and of the MAD threshold *)

\* The states of process_chat_signals in which metrics holds the scores.
Scored ==
    /\ op = "process_chat_signals"
    /\ pc \in {"highlight_scored", "peaks_detected", "expanded", "return"}
    /\ metrics # <<>>
ScoreNums == [i \in 1..Len(metrics) |-> metrics[i].score_num]
ScoreDen == metrics[1].score_den
\* The MAD of the score series is 0 (and detect_mad_peaks takes 1 for it).
ZeroMad == Mad4NoSubstitute(ScoreNums, ScoreDen) = 0

\* C26: with the weights 0.7 and 0.3 every highlight score lies in [0, 1];
\* so when the MAD of the scores is 0 and threshold_multiplier >= 1 the
\* threshold median + multiplier is at least 1 and no score is above it, and
\* with the multiplier 1.5 no minute reaches it: the pipeline returns no
\* highlight, however large the spike.
C26_ZeroMadSuppresses ==
    Scored =>
        /\ \A i \in 1..Len(metrics) :
              0 <= metrics[i].score_num /\ metrics[i].score_num <= ScoreDen
        /\ (ZeroMad /\ threshold_multiplier >= 10) =>
              /\ Threshold40(ScoreNums, ScoreDen, threshold_multiplier)
                    >= 40 * ScoreDen
              /\ \A i \in 1..Len(metrics) :
                    40 * metrics[i].score_num <=
                       Threshold40(ScoreNums, ScoreDen, threshold_multiplier)
        /\ (ZeroMad /\ threshold_multiplier = 15) =>
              /\ \A i \in 1..Len(metrics) :
                    40 * metrics[i].score_num <
                       Threshold40(ScoreNums, ScoreDen, threshold_multiplier)
              /\ pc # "expanded"
              /\ pc \in {"peaks_detected", "return"} => highlight_minutes = <<>>
              /\ pc = "return" => final_segments = <<>>

\* A minute in the middle of the series has the largest possible score 1, the
\* MAD of the scores is 0, and the default multiplier returns no highlight.
C26_Witness ==
    /\ Scored /\ pc = "return"
    /\ threshold_multiplier = 15
    /\ ZeroMad
    /\ \E i \in 2..(Len(metrics) - 1) : metrics[i].score_num = ScoreDen
    /\ final_segments = <<>>

-----------------------------------------------------------------------------
(* Properties of the files of run_clip_generator *)

\* The run is about to probe raw_files[0] for the EDL (lines 337-341).
AboutToProbe ==
    /\ RunStarted /\ ~dry_run
    /\ pc = "processing" /\ clip = Len(final_ranges)
    /\ processed_files # <<>>

\* C27: in a run that is not a dry run, when the export phase probes
\* raw_files[0] with get_video_metadata that file still exists: no earlier
\* step of the run, normalize_clip in particular, has deleted it.
C27_ProbedFileExists == AboutToProbe => raw_files[1] \in existing

\* What the run does: normalize_clip has removed every raw file it was given,
\* raw_files[0] among them, so the probe never succeeds and no EDL is
\* generated.
C27_ProbeAlwaysFails ==
    /\ AboutToProbe => raw_files[1] \notin existing
    /\ RunStarted =>
          /\ \A k \in 1..Len(calls) :
                calls[k] # Call("get_video_metadata", "returns")
          /\ "generate_professional_edl" \notin CallsMade
          /\ "get_video_metadata" \in CallsMade =>
                "Failed to generate EDL" \in Logged

\* The turns of the processing loop that normalized a raw file: turn i made
\* Highlight_i_Clean.mp4 out of raw_files[i] (1-based).
Normalized == 1..Min(clip, Len(raw_files))

\* C28: in a run that is not a dry run the raw file normalized into
\* Highlight_{i+1}_Clean.mp4 is the file downloaded for final_ranges[i], for
\* every i, also when the download of an earlier range failed and was
\* skipped.
C28_ClipsAligned ==
    (RunStarted /\ ~dry_run) => \A i \in Normalized : raw_files[i] = i

\* What the run does: the files keep the order of their ranges, so a file is
\* never paired with a later range than its own, and all are paired
\* correctly exactly when no download before the last file failed.
C28_AlignedUnlessSkipped ==
    (RunStarted /\ ~dry_run /\ raw_files # <<>>) =>
        /\ \A i \in 1..Len(raw_files) : raw_files[i] >= i
        /\ (\A i \in 1..Len(raw_files) : raw_files[i] = i)
              <=> raw_files[Len(raw_files)] = Len(raw_files)

-----------------------------------------------------------------------------
(* Properties of the highlights the reporter records *)

\* The spikes that produced the highlight h: those whose padded range lies
\* inside it.
SpikesOf(h) ==
    {k \in 1..Len(spike_seconds) :
        /\ h.start_seconds <= spike_seconds[k]
        /\ spike_seconds[k] <= h.end_seconds}

\* C29: for every highlight that log_highlights records from the output of
\* robust_merge_ranges and the spike list it was built from, the recorded
\* original_spike_time is a spike that produced the highlight: it lies in
\* [start_seconds, end_seconds], also when several spikes were merged into
\* one highlight.
C29_SpikeInsideHighlight ==
    RunStarted =>
        \A i \in 1..Len(highlights) :
            /\ highlights[i].original_spike_time # <<>>
            /\ highlights[i].start_seconds <= highlights[i].original_spike_time[1]
            /\ highlights[i].original_spike_time[1] <= highlights[i].end_seconds

\* What the reporter records: the spike at the position of the highlight.
\* It is a spike of the highlight when the spikes ascend and none was
\* merged with another.
C29_SpikeByPosition ==
    RunStarted =>
        /\ highlights = log_highlights(final_ranges, spike_seconds)
        /\ \A i \in 1..Len(highlights) :
              highlights[i].original_spike_time = <<spike_seconds[i]>>
        /\ (/\ Len(final_ranges) = Len(spike_seconds)
            /\ \A k \in 1..(Len(spike_seconds) - 1) :
                  spike_seconds[k] <= spike_seconds[k + 1]) =>
              \A i \in 1..Len(highlights) : i \in SpikesOf(highlights[i])

====
